---- MODULE Spec2Model ----
(***************************************************************************)
(* CoachByte backend (services/backend/db.js, services/backend/server.js): *)
(* the PostgreSQL tables and the Express handlers that read and write      *)
(* them.  Every `await client.query(...)` is one atomic step of a request; *)
(* the pool serves several requests at once and no handler opens a         *)
(* transaction, so the steps of concurrent requests interleave freely.     *)
(***************************************************************************)
EXTENDS Integers, Sequences, FiniteSets, TLC

\* ------------------------------------------------------------ bounds
MaxDays == 2         \* daily_logs rows ever inserted
MaxPlanned == 3      \* planned_sets rows ever inserted (SERIAL)
MaxCompleted == 2    \* completed_sets rows ever inserted (SERIAL)
MaxSplit == 2        \* split_sets rows ever inserted (SERIAL)
MaxDate == 1         \* calendar days the clock may reach
MaxTicks == 1        \* clock ticks within one calendar day
MaxSeconds == 4      \* seconds the clock may advance one at a time
MaxTimers == 2       \* timer rows ever inserted by direct calls (SERIAL)
MaxNotes == 4        \* split_notes rows ever inserted (SERIAL)
MaxLen == 5          \* characters in a DAY_START_TIME string
TickSeconds == 30    \* seconds the clock advances per tick

\* ------------------------------------------------------------ program constants
DefaultRest == 60
DAY_START_MINUTES == 0
SecondsPerDay == 1440 * 60
EpochWeekday == 4    \* 1970-01-01 is a Thursday

\* Two requests in flight at once.
Clients == {1, 2}
Dates == 0 .. MaxDate

\* ------------------------------------------------------------ JavaScript values
\* A JSON body field: absent, a number, or a (numeric) string.
JsUndef == [t |-> "undefined", v |-> 0]
JsNum(n) == [t |-> "number", v |-> n]
JsStr(n) == [t |-> "string", v |-> n]
JsText == [t |-> "text", v |-> 0]    \* a string that is no number

\* JavaScript truthiness: undefined and 0 are falsy, a non-empty string is truthy.
Truthy(x) == CASE x.t = "undefined" -> FALSE
               [] x.t = "number" -> x.v # 0
               [] x.t = "string" -> TRUE

\* `item.rest || 60`, then the INTEGER column's conversion of the parameter.
RestOrDefault(x) == IF Truthy(x) THEN x.v ELSE DefaultRest

\* `Number(seconds) || 0`: undefined and text give NaN, and NaN or 0 give 0.
NumberOrZero(x) == IF x.t \in {"number", "string"} THEN x.v ELSE 0

\* Seeded fault: setTimerSeconds without Math.max(0, ...).
TimerSeconds_Unclamped(s) == s

\* `Math.max(0, Number(seconds) || 0)`
TimerSeconds(s) == IF s > 0 THEN s ELSE 0

\* LOWER(name)
Lower(n) == CASE n = "Squat" -> "squat"
              [] n = "Bench" -> "bench"
              [] n = "Bench Press" -> "bench press"
              [] n = "Deadlift" -> "deadlift"
              [] OTHER -> n

\* new Date(logDate + 'T00:00:00').getDay(): dates are day numbers since the epoch.
Weekday(d) == (d + EpochWeekday) % 7

VARIABLES
  daily_logs,      \* rows [id, log_date, summary]
  planned_sets,    \* rows [id, log_id, exercise_id, order_num, reps, load, rest, relative]
  completed_sets,  \* rows [id, log_id, exercise_id, planned_set_id, reps_done, load_done, completed_at]
  split_sets,      \* rows [id, day_of_week, exercise_id, order_num, reps, load, rest, relative]
  timer,           \* rows [id, timer_end_time, created_at]
  exercises,       \* rows [id, name]
  tracked_exercises, \* rows [exercise]: the names whose PRs are tracked
  split_notes,     \* rows [id, notes, updated_at]
  serial,          \* next value of each id sequence
  now,             \* wall clock, local seconds since the epoch
  req,             \* per client: the request in flight and its position
  copies,          \* history: per Day id, how often applySplitIfEmpty started inserting
  last             \* history: outcome of the latest ensureTodayPlan call

vars == <<daily_logs, planned_sets, completed_sets, split_sets, timer, exercises,
          tracked_exercises, split_notes, serial, now, req, copies, last>>

store == <<daily_logs, planned_sets, completed_sets, split_sets, timer, exercises,
           tracked_exercises, split_notes, serial>>

\* ------------------------------------------------------------ clock
\* The calendar date of a day number (days since 1970-01-01), as the formatter
\* and getUTCFullYear/getUTCMonth/getUTCDate produce it.
CivilFromDays(z) ==
  LET zz == z + 719468
      era == zz \div 146097
      doe == zz - era * 146097
      yoe == (doe - doe \div 1460 + doe \div 36524 - doe \div 146096) \div 365
      doy == doe - (365 * yoe + yoe \div 4 - yoe \div 100)
      mp == (5 * doy + 2) \div 153
      m == IF mp < 10 THEN mp + 3 ELSE mp - 9
  IN [year |-> yoe + era * 400 + (IF m <= 2 THEN 1 ELSE 0), month |-> m,
      day |-> doy - (153 * mp + 2) \div 5 + 1]

\* Date.UTC(year, month - 1, day), in days since 1970-01-01.
DateUTC(year, month, day) ==
  LET y == IF month <= 2 THEN year - 1 ELSE year
      era == y \div 400
      yoe == y - era * 400
      doy == (153 * (IF month > 2 THEN month - 3 ELSE month + 9) + 2) \div 5 + day - 1
      doe == yoe * 365 + yoe \div 4 - yoe \div 100 + doy
  IN era * 146097 + doe - 719468

\* The 'hour' part of the en-US formatter with hour12: false.  Whether the hour
\* after midnight is written 00 or 24 depends on the runtime's hour cycle for
\* that option (h23 or h24).
FormattedHours(h) == IF h = 0 THEN {0, 24} ELSE {h}

\* The parts the formatter yields for the local wall clock t (seconds).
LocalParts(t) ==
  LET minutes == t \div 60
      date == CivilFromDays(minutes \div 1440)
  IN { [year |-> date.year, month |-> date.month, day |-> date.day, hour |-> hour,
        minute |-> minutes % 60] : hour \in FormattedHours((minutes % 1440) \div 60) }

\* dateUtc, one day earlier when minutesSinceMidnight < DAY_START_MINUTES.
LogicalDay(parts, offset) ==
  LET dateUtc == DateUTC(parts.year, parts.month, parts.day)
      minutesSinceMidnight == parts.hour * 60 + parts.minute
  IN IF minutesSinceMidnight < offset THEN dateUtc - 1 ELSE dateUtc

\* `${year}-${pad(month)}-${pad(day)}`, read as the number yyyymmdd.
DateString(z) ==
  LET date == CivilFromDays(z)
  IN date.year * 10000 + date.month * 100 + date.day

\* getTodayInEst as the day number of the date it returns.  With DAY_START_TIME
\* at its default the written hour makes no difference.
getTodayInEst ==
  CHOOSE day \in { LogicalDay(parts, DAY_START_MINUTES) : parts \in LocalParts(now) } : TRUE

\* ------------------------------------------------------------ request state
NoItem == [exercise |-> "", reps |-> 0, load |-> 0, rest |-> JsUndef, order_num |-> 0,
           relative |-> FALSE, planned_set_id |-> 0, reps_done |-> 0, load_done |-> 0]

Idle == [op |-> "idle", pc |-> "idle", id |-> 0, date |-> 0, item |-> NoItem,
         logId |-> 0, exId |-> 0, rows |-> <<>>, copied |-> FALSE, plan |-> <<>>,
         completed |-> {}, dayData |-> <<>>, nextSet |-> <<>>, newId |-> 0,
         phase |-> 0, status |-> 0, days |-> <<>>, seconds |-> JsUndef,
         timerError |-> FALSE, timerStatus |-> "", remaining |-> 0, endsAt |-> <<>>,
         tracked |-> {}, prs |-> <<>>, text |-> "", offset |-> 0, today |-> 0, value |-> <<>>, minutes |-> 0,
         shown |-> <<>>]

At(c, op, pc) == req[c].op = op /\ req[c].pc = pc

\* res.status(500): the handler's catch block.
Fail(r) == [r EXCEPT !.pc = "done", !.status = 500]

\* ------------------------------------------------------------ queries
\* All orderings of the rows of S by order_num ascending (SQL leaves ties open).
OrderedBy(S) ==
  LET n == Cardinality(S)
  IN { s \in [1 .. n -> S] :
         /\ \A i, j \in 1 .. n : i # j => s[i] # s[j]
         /\ \A i \in 1 .. n : \A j \in 1 .. n : i < j => s[i].order_num <= s[j].order_num }

\* SELECT id FROM daily_logs WHERE log_date = $1
DaysOn(date) == { r \in daily_logs : r.log_date = date }

\* Seeded fault: daily_logs without the UNIQUE constraint on log_date.
UniqueDateViolation_Missing(date) == FALSE

\* log_date DATE NOT NULL UNIQUE
UniqueDateViolation(date) == DaysOn(date) # {}

\* SELECT COUNT(*) FROM planned_sets WHERE log_id = $1
PlannedCount(logId) == Cardinality({ ps \in planned_sets : ps.log_id = logId })

\* Seeded fault: the template query without its weekday filter.
SplitFor_AnyWeekday(dow) ==
  { ss \in split_sets : \E e \in exercises : e.id = ss.exercise_id }

\* split_sets JOIN exercises WHERE day_of_week = $1
SplitFor(dow) ==
  { ss \in split_sets : ss.day_of_week = dow /\ \E e \in exercises : e.id = ss.exercise_id }

\* Seeded fault: the plan query without `AND cs.id IS NULL`.
ActivePlan_Unfiltered(id) ==
  { ps \in planned_sets : ps.log_id = id /\ \E e \in exercises : e.id = ps.exercise_id }

\* Seeded fault: the join matches a Completed Set of the same Day and exercise
\* instead of the one linked by planned_set_id.
ActivePlan_ByExercise(id) ==
  { ps \in planned_sets :
      /\ ps.log_id = id
      /\ \E e \in exercises : e.id = ps.exercise_id
      /\ ~ \E cs \in completed_sets : cs.log_id = id /\ cs.exercise_id = ps.exercise_id }

\* planned_sets JOIN exercises LEFT JOIN completed_sets ... WHERE log_id = $1 AND cs.id IS NULL
ActivePlan(id) ==
  { ps \in planned_sets :
      /\ ps.log_id = id
      /\ \E e \in exercises : e.id = ps.exercise_id
      /\ ~ \E cs \in completed_sets : cs.planned_set_id = ps.id }

\* completed_sets JOIN exercises WHERE log_id = $1
CompletedOf(id) ==
  { cs \in completed_sets : cs.log_id = id /\ \E e \in exercises : e.id = cs.exercise_id }

DayExists(id) == \E r \in daily_logs : r.id = id

\* Seeded fault: planned_set_id is stored without the check of its reference.
PlannedExists_Any(id) == TRUE

PlannedExists(id) == \E ps \in planned_sets : ps.id = id


\* ------------------------------------------------------------ initial state
\* The names initDb tracks when the tracked_exercises table is empty.
DefaultTracked == {"Bench Press", "Squat", "Deadlift"}

\* initDb(false) on an empty database: every table empty but tracked_exercises,
\* every sequence at 1.
EmptyStore ==
  /\ daily_logs = {}
  /\ planned_sets = {}
  /\ completed_sets = {}
  /\ split_sets = {}
  /\ timer = {}
  /\ exercises = {}
  /\ tracked_exercises = DefaultTracked
  /\ split_notes = {}
  /\ serial = [day |-> 1, planned |-> 1, completed |-> 1, split |-> 1, timer |-> 1,
               exercise |-> 1, notes |-> 1]

NoLast == [date |-> 0, id |-> 0, count |-> 0, n |-> 0]

Quiet ==
  /\ now = 0
  /\ req = [c \in Clients |-> Idle]
  /\ copies = [d \in 1 .. MaxDays + 1 |-> 0]
  /\ last = NoLast

Init == EmptyStore /\ Quiet

Set(c, r) == req' = [req EXCEPT ![c] = r]

\* ------------------------------------------------------------ clock steps
Tick ==
  /\ (now % SecondsPerDay) < MaxTicks * TickSeconds
  /\ now' = now + TickSeconds
  /\ UNCHANGED <<store, req, copies, last>>

\* One second passes.
Second ==
  /\ now < MaxSeconds
  /\ now' = now + 1
  /\ UNCHANGED <<store, req, copies, last>>

NextDay ==
  /\ now \div SecondsPerDay < MaxDate
  /\ now' = ((now \div SecondsPerDay) + 1) * SecondsPerDay
  /\ UNCHANGED <<store, req, copies, last>>

\* getTodayInEst() in a process started with DAY_START_TIME at `offset` minutes.
Today(c, offset) ==
  /\ req[c] = Idle
  /\ \E parts \in LocalParts(now) :
       Set(c, [Idle EXCEPT !.op = "Today", !.pc = "done", !.status = 200,
                           !.offset = offset,
                           !.today = DateString(LogicalDay(parts, offset))])
  /\ UNCHANGED <<store, now, copies, last>>

\* ------------------------------------------------------------ ensureDay
\* Where a request goes on when ensureDay returns logId.
AfterEnsureDay(r, logId) ==
  IF r.op = "PostDays"
  THEN [r EXCEPT !.logId = logId, !.status = 200, !.pc = "done"]
  ELSE [r EXCEPT !.logId = logId, !.pc = "applySplit_count"]

\* POST /api/days {date}
PostDays(c, date) ==
  /\ req[c] = Idle
  /\ Set(c, [Idle EXCEPT !.op = "PostDays", !.pc = "ensureDay_select", !.date = date])
  /\ UNCHANGED <<store, now, copies, last>>

\* GET /api/days: ensureTodayPlan reads the clock, then calls ensureDay.
GetDays(c) ==
  /\ req[c] = Idle
  /\ Set(c, [Idle EXCEPT !.op = "GetDays", !.pc = "ensureDay_select",
                         !.date = getTodayInEst])
  /\ UNCHANGED <<store, now, copies, last>>

ensureDay_Select(c) ==
  /\ req[c].pc = "ensureDay_select"
  /\ LET found == DaysOn(req[c].date)
     IN IF found # {}
        THEN \E row \in found : Set(c, AfterEnsureDay(req[c], row.id))
        ELSE Set(c, [req[c] EXCEPT !.pc = "ensureDay_insert"])
  /\ UNCHANGED <<store, now, copies, last>>

ensureDay_Insert(c) ==
  /\ req[c].pc = "ensureDay_insert"
  /\ serial.day <= MaxDays
  /\ LET logId == serial.day
     IN IF UniqueDateViolation(req[c].date)
        THEN /\ Set(c, Fail(req[c]))
             /\ UNCHANGED <<daily_logs, serial>>
        ELSE /\ daily_logs' = daily_logs \cup
                  {[id |-> logId, log_date |-> req[c].date, summary |-> ""]}
             /\ serial' = [serial EXCEPT !.day = @ + 1]
             /\ Set(c, AfterEnsureDay(req[c], logId))
  /\ UNCHANGED <<tracked_exercises, split_notes>>
  /\ UNCHANGED <<planned_sets, completed_sets, split_sets, timer, exercises, now,
                 copies, last>>

\* ------------------------------------------------------------ applySplitIfEmpty
\* Where a request goes on when applySplitIfEmpty returns.
AfterApplySplit(r) ==
  IF r.op = "GetDays"
  THEN [r EXCEPT !.pc = "getAllDays", !.rows = <<>>]
  ELSE [r EXCEPT !.pc = "getDay_plan", !.rows = <<>>]

\* The history of ensureTodayPlan outcomes, given the planned_sets table it leaves.
LastAfter(r, ps) ==
  IF r.op = "GetDays"
  THEN [date |-> r.date, id |-> r.logId,
        count |-> Cardinality({ p \in ps : p.log_id = r.logId }),
        n |-> IF last.n > 0 /\ last.date = r.date THEN 2 ELSE 1]
  ELSE last

\* Seeded fault: applySplitIfEmpty without its emptiness check.
PlanIsEmpty_Unchecked(logId) == TRUE

\* The emptiness check that gates the clone.
PlanIsEmpty(logId) == PlannedCount(logId) = 0

applySplit_Count(c) ==
  /\ req[c].pc = "applySplit_count"
  /\ IF PlanIsEmpty(req[c].logId)
     THEN /\ Set(c, [req[c] EXCEPT !.pc = "applySplit_select"])
          /\ UNCHANGED last
     ELSE /\ Set(c, AfterApplySplit(req[c]))
          /\ last' = LastAfter(req[c], planned_sets)
  /\ UNCHANGED <<store, now, copies>>

\* The template query; getPRs follows it and its result is not used.
applySplit_Select(c) ==
  /\ req[c].pc = "applySplit_select"
  /\ \E rows \in OrderedBy(SplitFor(Weekday(req[c].date))) :
       IF rows = <<>>
       THEN /\ Set(c, AfterApplySplit(req[c]))
            /\ last' = LastAfter(req[c], planned_sets)
       ELSE /\ Set(c, [req[c] EXCEPT !.pc = "applySplit_insert", !.rows = rows,
                                     !.copied = FALSE])
            /\ UNCHANGED last
  /\ UNCHANGED <<store, now, copies>>

\* Seeded fault: the clone stores a resolved load (0 without a 1RM) for a relative row.
PlannedFromSplit_Resolved(id, logId, row) ==
  [id |-> id, log_id |-> logId, exercise_id |-> row.exercise_id,
   order_num |-> row.order_num, reps |-> row.reps,
   load |-> IF row.relative THEN 0 ELSE row.load,
   rest |-> row.rest, relative |-> row.relative]

\* The planned_sets row cloned from a split_sets row: load is copied unconverted.
PlannedFromSplit(id, logId, row) ==
  [id |-> id, log_id |-> logId, exercise_id |-> row.exercise_id,
   order_num |-> row.order_num, reps |-> row.reps, load |-> row.load,
   rest |-> row.rest, relative |-> row.relative]

\* One INSERT of the loop over the template rows.
applySplit_Insert(c) ==
  /\ req[c].pc = "applySplit_insert"
  /\ serial.planned <= MaxPlanned
  /\ LET r == req[c]
         row == Head(r.rows)
     IN IF ~ DayExists(r.logId)
        THEN \* log_id REFERENCES daily_logs(id)
             /\ Set(c, Fail(r))
             /\ UNCHANGED <<planned_sets, serial, copies, last>>
        ELSE /\ planned_sets' = planned_sets \cup
                  {PlannedFromSplit(serial.planned, r.logId, row)}
             /\ serial' = [serial EXCEPT !.planned = @ + 1]
             /\ copies' = IF r.copied THEN copies
                          ELSE [copies EXCEPT ![r.logId] = @ + 1]
             /\ IF Len(r.rows) = 1
                THEN /\ Set(c, AfterApplySplit([r EXCEPT !.copied = TRUE]))
                     /\ last' = LastAfter(r, planned_sets')
                ELSE /\ Set(c, [r EXCEPT !.rows = Tail(r.rows), !.copied = TRUE])
                     /\ UNCHANGED last
  /\ UNCHANGED <<tracked_exercises, split_notes>>
  /\ UNCHANGED <<daily_logs, completed_sets, split_sets, timer, exercises, now>>

\* ------------------------------------------------------------ getAllDays
CompletedCount(id) == Cardinality({ cs \in completed_sets : cs.log_id = id })

\* Seeded fault: ORDER BY log_date without DESC.
AllDays_Ascending ==
  LET n == Cardinality(daily_logs)
  IN { s \in [1 .. n -> daily_logs] :
         /\ \A i, j \in 1 .. n : i # j => s[i] # s[j]
         /\ \A i \in 1 .. n : \A j \in 1 .. n : i < j => s[i].log_date <= s[j].log_date }

\* daily_logs LEFT JOIN completed_sets GROUP BY ... ORDER BY log_date DESC
AllDays ==
  LET n == Cardinality(daily_logs)
  IN { s \in [1 .. n -> daily_logs] :
         /\ \A i, j \in 1 .. n : i # j => s[i] # s[j]
         /\ \A i \in 1 .. n : \A j \in 1 .. n : i < j => s[i].log_date >= s[j].log_date }

getAllDays(c) ==
  /\ req[c].pc = "getAllDays"
  /\ \E s \in AllDays :
       Set(c, [req[c] EXCEPT !.pc = "done", !.status = 200,
                 !.days = [i \in 1 .. Len(s) |->
                             [id |-> s[i].id, log_date |-> s[i].log_date,
                              completed_sets_count |-> CompletedCount(s[i].id)]]])
  /\ UNCHANGED <<store, now, copies, last>>

\* The response is sent; the client may issue its next request.
Return(c) ==
  /\ req[c].pc = "done"
  /\ Set(c, Idle)
  /\ UNCHANGED <<store, now, copies, last>>


\* ------------------------------------------------------------ getDay
\* GET /api/days/:id
GetDay(c, id) ==
  /\ req[c] = Idle
  /\ Set(c, [Idle EXCEPT !.op = "GetDay", !.pc = "getDay_log", !.id = id])
  /\ UNCHANGED <<store, now, copies, last>>

\* SELECT ... FROM daily_logs WHERE id = $1; null when there is no such Day.
\* GET answers 404; POST .../completed dereferences null and lands in its catch.
getDay_Log(c) ==
  /\ req[c].pc = "getDay_log"
  /\ LET r == req[c]
         found == { row \in daily_logs : row.id = r.id }
     IN IF found = {}
        THEN Set(c, [r EXCEPT !.pc = "done",
                              !.status = IF r.op = "GetDay" THEN 404 ELSE 500])
        ELSE \E row \in found :
               Set(c, [r EXCEPT !.pc = "applySplit_count", !.logId = row.id,
                                !.date = row.log_date])
  /\ UNCHANGED <<store, now, copies, last>>

\* The plan query: the active queue, ordered by order_num; getPRs follows.
getDay_Plan(c) ==
  /\ req[c].pc = "getDay_plan"
  /\ \E plan \in OrderedBy(ActivePlan(req[c].id)) :
       Set(c, [req[c] EXCEPT !.pc = "getPRs_tracked", !.plan = plan])
  /\ UNCHANGED <<store, now, copies, last>>

\* ------------------------------------------------------------ getPRs and load resolution
\* The rows of the PR query: per tracked lower-cased name and rep count, the
\* maximum load over the Completed Sets with reps_done > 0 and load_done > 0.
Qualifying(name, reps) ==
  { cs \in completed_sets :
      /\ \E e \in exercises : e.id = cs.exercise_id /\ Lower(e.name) = name
      /\ cs.reps_done = reps
      /\ cs.reps_done > 0
      /\ cs.load_done > 0 }

\* Seeded fault: the lowest load of the group for MAX(cs.load_done).
MaxLoad_Min(S) == CHOOSE m \in { cs.load_done : cs \in S } : \A cs \in S : m <= cs.load_done

\* MAX(cs.load_done)
MaxLoad(S) == CHOOSE m \in { cs.load_done : cs \in S } : \A cs \in S : cs.load_done <= m

PRRows(tracked) ==
  { [exercise |-> name, reps |-> reps, maxLoad |-> MaxLoad(Qualifying(name, reps))] :
      <<name, reps>> \in { <<Lower(e.name), cs.reps_done>> :
                             <<e, cs>> \in { x \in exercises \X completed_sets :
                                                /\ x[1].id = x[2].exercise_id
                                                /\ Lower(x[1].name) \in tracked
                                                /\ x[2].reps_done > 0
                                                /\ x[2].load_done > 0 } } }

\* ORDER BY LOWER(e.name), cs.reps_done, then grouped by exercise: per name the
\* records {reps, maxLoad} in ascending order of reps.
RecordsOf(rows, name) ==
  LET mine == { r \in rows : r.exercise = name }
      n == Cardinality(mine)
      sorted == CHOOSE q \in [1 .. n -> mine] :
                  \A i \in 1 .. n : \A j \in 1 .. n : i < j => q[i].reps < q[j].reps
  IN [i \in 1 .. n |-> [reps |-> sorted[i].reps, maxLoad |-> sorted[i].maxLoad]]

PRsByExercise(rows) == [name \in { r.exercise : r \in rows } |-> RecordsOf(rows, name)]

\* Seeded fault: the record's load taken as the estimate whatever the rep count.
Est30_NoEpley(r) == 30 * r.maxLoad

\* Loads are REAL and the estimates are fractions: an estimate is held as its
\* numerator over 30.  est = r.reps === 1 ? r.maxLoad : r.maxLoad * (1 + r.reps / 30)
Est30(r) == IF r.reps = 1 THEN 30 * r.maxLoad ELSE r.maxLoad * (30 + r.reps)

\* Seeded fault: a 1-rep record, when there is one, is the 1RM.
OneRM30_TrueFirst(records) ==
  IF \E i \in DOMAIN records : records[i].reps = 1
  THEN 30 * records[CHOOSE i \in DOMAIN records : records[i].reps = 1].maxLoad
  ELSE IF records = <<>> THEN 0
       ELSE CHOOSE m \in { Est30(records[i]) : i \in DOMAIN records } :
              \A i \in DOMAIN records : Est30(records[i]) <= m

\* let max = 0; for (const r of records) { ...; if (est > max) max = est; }
RECURSIVE MaxEst30(_, _)
MaxEst30(records, max) ==
  IF records = <<>> THEN max
  ELSE MaxEst30(Tail(records), IF Est30(Head(records)) > max THEN Est30(Head(records)) ELSE max)

OneRM30(records) == MaxEst30(records, 0)

\* oneRMs[ex] = max, for every exercise of prs
OneRMs(prs) == [name \in DOMAIN prs |-> OneRM30(prs[name])]

\* Math.round(a / b) for a >= 0, b > 0: halves go up.
RoundDiv(a, b) == (2 * a + b) \div (2 * b)

ExerciseName(id) == (CHOOSE e \in exercises : e.id = id).name

\* Seeded fault: the 1RM is looked up under the name as stored, not lower-cased.
OneRMFor_CaseSensitive(oneRMs, name) == IF name \in DOMAIN oneRMs THEN oneRMs[name] ELSE 0

\* oneRMs[row.exercise.toLowerCase()], undefined when there is no entry
OneRMFor(oneRMs, name) ==
  IF Lower(name) \in DOMAIN oneRMs THEN oneRMs[Lower(name)] ELSE 0

\* planWithCalculatedWeights: each plan row with calculatedLoad and originalLoad.
ResolveLoad(row, oneRMs) ==
  LET rm == OneRMFor(oneRMs, ExerciseName(row.exercise_id))
      calculatedLoad == IF row.relative
                        THEN IF rm # 0 THEN RoundDiv(rm * row.load, 30 * 100) ELSE 0
                        ELSE row.load
  IN [calculatedLoad |-> calculatedLoad, originalLoad |-> row.load] @@ row

\* PRTracker: computeEstimated1RM = Math.round(load * (1 + reps / 30)).  The loads
\* and rep counts of the stored rows keep the product away from a half, where the
\* double-precision product could round to the other side.
computeEstimated1RM(reps, load) == RoundDiv(load * (30 + reps), 30)

\* [...prList].sort((a, b) => a.reps - b.reps): the rep counts of one exercise differ.
SortedByReps(prList) ==
  CHOOSE q \in [DOMAIN prList -> { prList[i] : i \in DOMAIN prList }] :
    /\ \A i \in DOMAIN prList : \E j \in DOMAIN prList : q[j] = prList[i]
    /\ \A i \in DOMAIN prList : \A j \in DOMAIN prList : i < j => q[i].reps < q[j].reps

\* Seeded fault: the estimated entry is added whether or not a 1-rep record exists.
processPRs_Always(data) ==
  [exercise \in DOMAIN data |->
     LET sorted == SortedByReps(data[exercise])
         shownRecords == [i \in DOMAIN sorted |->
                            [reps |-> sorted[i].reps, maxLoad |-> sorted[i].maxLoad,
                             estimated |-> FALSE]]
     IN <<[reps |-> 1,
           maxLoad |-> computeEstimated1RM(sorted[1].reps, sorted[1].maxLoad),
           estimated |-> TRUE]>> \o shownRecords]

\* PRTracker: processPRs.  An entry without the `estimated` property displays as
\* one with estimated false.
processPRs(data) ==
  [exercise \in DOMAIN data |->
     LET sorted == SortedByReps(data[exercise])
         hasOneRM == \E i \in DOMAIN sorted : sorted[i].reps = 1
         shownRecords == [i \in DOMAIN sorted |->
                            [reps |-> sorted[i].reps, maxLoad |-> sorted[i].maxLoad,
                             estimated |-> FALSE]]
     IN IF ~hasOneRM /\ Len(sorted) > 0
        THEN <<[reps |-> 1,
                maxLoad |-> computeEstimated1RM(sorted[1].reps, sorted[1].maxLoad),
                estimated |-> TRUE]>> \o shownRecords
        ELSE shownRecords]

\* Where a request goes on when getPRs returns prs.
AfterGetPRs(r, prs) ==
  IF r.op = "GetPRs"
  THEN [r EXCEPT !.pc = "done", !.status = 200, !.prs = prs]
  ELSE IF r.op = "LoadPRs"
  THEN [r EXCEPT !.pc = "done", !.status = 200, !.prs = prs, !.shown = processPRs(prs)]
  ELSE [r EXCEPT !.pc = "getDay_completed", !.prs = prs,
                 !.plan = [i \in DOMAIN r.plan |-> ResolveLoad(r.plan[i], OneRMs(prs))]]

\* GET /api/prs
GetPRs(c) ==
  /\ req[c] = Idle
  /\ Set(c, [Idle EXCEPT !.op = "GetPRs", !.pc = "getPRs_tracked"])
  /\ UNCHANGED <<store, now, copies, last>>

\* PRTracker: loadPRs, fetch('/api/prs') then setPRs(processPRs(data))
LoadPRs(c) ==
  /\ req[c] = Idle
  /\ Set(c, [Idle EXCEPT !.op = "LoadPRs", !.pc = "getPRs_tracked"])
  /\ UNCHANGED <<store, now, copies, last>>

\* SELECT exercise FROM tracked_exercises, lower-cased; none tracked: return {}
getPRs_Tracked(c) ==
  /\ req[c].pc = "getPRs_tracked"
  /\ LET tracked == { Lower(x) : x \in tracked_exercises }
     IN IF tracked = {}
        THEN Set(c, AfterGetPRs(req[c], <<>>))
        ELSE Set(c, [req[c] EXCEPT !.pc = "getPRs_query", !.tracked = tracked])
  /\ UNCHANGED <<store, now, copies, last>>

\* The PR query and the grouping of its rows by exercise.
getPRs_Query(c) ==
  /\ req[c].pc = "getPRs_query"
  /\ Set(c, AfterGetPRs(req[c], PRsByExercise(PRRows(req[c].tracked))))
  /\ UNCHANGED <<store, now, copies, last>>

\* Where a request goes on when getDay returns {log, plan, completed}.
AfterGetDay(r, completed) ==
  CASE r.op = "GetDay" ->
         [r EXCEPT !.pc = "done", !.status = 200, !.completed = completed]
    [] r.op = "PostCompleted" /\ r.phase = 1 ->
         \* nextSet = dayData.plan.length > 0 ? dayData.plan[0] : null
         [r EXCEPT !.pc = "getExerciseId_select", !.dayData = r.plan,
                   !.nextSet = IF Len(r.plan) > 0 THEN <<r.plan[1]>> ELSE <<>>,
                   !.plan = <<>>]
    [] OTHER ->
         \* updatedDayData.completed.find(c => c.id === id): the response echoes
         \* the stored row, or {id} when it is not found
         [r EXCEPT !.pc = "done", !.status = 200, !.plan = <<>>,
                   !.completed = { cs \in completed : cs.id = r.newId }]

\* POST /api/tracked-exercises {exercise}
PostTracked(c, exercise) ==
  /\ req[c] = Idle
  /\ Set(c, [Idle EXCEPT !.op = "PostTracked", !.pc = "addTrackedExercise",
                         !.item = [NoItem EXCEPT !.exercise = exercise]])
  /\ UNCHANGED <<store, now, copies, last>>

\* INSERT INTO tracked_exercises ... ON CONFLICT (exercise) DO NOTHING
addTrackedExercise(c) ==
  /\ req[c].pc = "addTrackedExercise"
  /\ tracked_exercises' = tracked_exercises \cup {req[c].item.exercise}
  /\ Set(c, [req[c] EXCEPT !.pc = "done", !.status = 200])
  /\ UNCHANGED <<daily_logs, planned_sets, completed_sets, split_sets, timer, exercises,
                 split_notes, serial, now, copies, last>>

\* DELETE /api/tracked-exercises {exercise}
DeleteTracked(c, exercise) ==
  /\ req[c] = Idle
  /\ Set(c, [Idle EXCEPT !.op = "DeleteTracked", !.pc = "removeTrackedExercise",
                         !.item = [NoItem EXCEPT !.exercise = exercise]])
  /\ UNCHANGED <<store, now, copies, last>>

\* DELETE FROM tracked_exercises WHERE exercise = $1
removeTrackedExercise(c) ==
  /\ req[c].pc = "removeTrackedExercise"
  /\ tracked_exercises' = tracked_exercises \ {req[c].item.exercise}
  /\ Set(c, [req[c] EXCEPT !.pc = "done", !.status = 200])
  /\ UNCHANGED <<daily_logs, planned_sets, completed_sets, split_sets, timer, exercises,
                 split_notes, serial, now, copies, last>>

\* The completed query.
getDay_Completed(c) ==
  /\ req[c].pc = "getDay_completed"
  /\ Set(c, AfterGetDay(req[c], CompletedOf(req[c].id)))
  /\ UNCHANGED <<store, now, copies, last>>

\* ------------------------------------------------------------ getExerciseId
\* Where a request goes on when getExerciseId returns exId.
AfterGetExerciseId(r, exId) ==
  [r EXCEPT !.exId = exId,
            !.pc = CASE r.op = "PostPlan" -> "addPlan_insert"
                     [] r.op = "PutPlan" -> "updatePlan_update"
                     [] r.op = "PostCompleted" -> "addCompleted_insert"
                     [] r.op = "PutCompleted" -> "updateCompleted_update"
                     [] r.op = "PutSplit" -> "updateSplit_update"
                     [] OTHER -> "addSplit_insert"]

\* SELECT id FROM exercises WHERE LOWER(name) = LOWER($1)
getExerciseId_Select(c) ==
  /\ req[c].pc = "getExerciseId_select"
  /\ LET found == { e \in exercises : Lower(e.name) = Lower(req[c].item.exercise) }
     IN IF found # {}
        THEN \E e \in found : Set(c, AfterGetExerciseId(req[c], e.id))
        ELSE Set(c, [req[c] EXCEPT !.pc = "getExerciseId_insert"])
  /\ UNCHANGED <<store, now, copies, last>>

\* INSERT INTO exercises (name): name is UNIQUE (case-sensitively).
getExerciseId_Insert(c) ==
  /\ req[c].pc = "getExerciseId_insert"
  /\ IF \E e \in exercises : e.name = req[c].item.exercise
     THEN /\ Set(c, Fail(req[c]))
          /\ UNCHANGED <<exercises, serial>>
     ELSE /\ exercises' = exercises \cup
               {[id |-> serial.exercise, name |-> req[c].item.exercise]}
          /\ serial' = [serial EXCEPT !.exercise = @ + 1]
          /\ Set(c, AfterGetExerciseId(req[c], serial.exercise))
  /\ UNCHANGED <<tracked_exercises, split_notes>>
  /\ UNCHANGED <<daily_logs, planned_sets, completed_sets, split_sets, timer, now,
                 copies, last>>

\* ------------------------------------------------------------ planned sets
\* POST /api/days/:id/plan
PostPlan(c, id, item) ==
  /\ req[c] = Idle
  /\ Set(c, [Idle EXCEPT !.op = "PostPlan", !.pc = "getExerciseId_select", !.id = id,
                         !.item = item])
  /\ UNCHANGED <<store, now, copies, last>>

addPlan_Insert(c) ==
  /\ req[c].pc = "addPlan_insert"
  /\ serial.planned <= MaxPlanned
  /\ LET r == req[c]
     IN IF ~ DayExists(r.id)
        THEN /\ Set(c, Fail(r))
             /\ UNCHANGED <<planned_sets, serial>>
        ELSE /\ planned_sets' = planned_sets \cup
                  {[id |-> serial.planned, log_id |-> r.id, exercise_id |-> r.exId,
                    order_num |-> r.item.order_num, reps |-> r.item.reps,
                    load |-> r.item.load, rest |-> RestOrDefault(r.item.rest),
                    relative |-> r.item.relative]}
             /\ serial' = [serial EXCEPT !.planned = @ + 1]
             /\ Set(c, [r EXCEPT !.pc = "done", !.status = 200, !.newId = serial.planned])
  /\ UNCHANGED <<tracked_exercises, split_notes>>
  /\ UNCHANGED <<daily_logs, completed_sets, split_sets, timer, exercises, now, copies,
                 last>>

\* PUT /api/plan/:id
PutPlan(c, id, item) ==
  /\ req[c] = Idle
  /\ Set(c, [Idle EXCEPT !.op = "PutPlan", !.pc = "getExerciseId_select", !.id = id,
                         !.item = item])
  /\ UNCHANGED <<store, now, copies, last>>

\* UPDATE planned_sets SET exercise_id, order_num, reps, load, rest, relative WHERE id
updatePlan_Update(c) ==
  /\ req[c].pc = "updatePlan_update"
  /\ LET r == req[c]
     IN /\ planned_sets' =
             { IF ps.id = r.id
               THEN [ps EXCEPT !.exercise_id = r.exId, !.order_num = r.item.order_num,
                               !.reps = r.item.reps, !.load = r.item.load,
                               !.rest = RestOrDefault(r.item.rest),
                               !.relative = r.item.relative]
               ELSE ps : ps \in planned_sets }
        /\ Set(c, [r EXCEPT !.pc = "done", !.status = 200])
  /\ UNCHANGED <<tracked_exercises, split_notes>>
  /\ UNCHANGED <<daily_logs, completed_sets, split_sets, timer, exercises, serial, now,
                 copies, last>>

\* Seeded fault: completed_sets.planned_set_id without REFERENCES planned_sets(id).
PlannedReferenced_Unchecked(id) == FALSE

\* planned_set_id INTEGER REFERENCES planned_sets(id): a referenced row cannot go.
PlannedReferenced(id) == \E cs \in completed_sets : cs.planned_set_id = id

\* DELETE /api/plan/:id
DeletePlan(c, id) ==
  /\ req[c] = Idle
  /\ Set(c, [Idle EXCEPT !.op = "DeletePlan", !.pc = "deletePlan", !.id = id])
  /\ UNCHANGED <<store, now, copies, last>>

deletePlan(c) ==
  /\ req[c].pc = "deletePlan"
  /\ IF PlannedReferenced(req[c].id)
     THEN /\ Set(c, Fail(req[c]))
          /\ UNCHANGED planned_sets
     ELSE /\ planned_sets' = { ps \in planned_sets : ps.id # req[c].id }
          /\ Set(c, [req[c] EXCEPT !.pc = "done", !.status = 200])
  /\ UNCHANGED <<tracked_exercises, split_notes>>
  /\ UNCHANGED <<daily_logs, completed_sets, split_sets, timer, exercises, serial, now,
                 copies, last>>


\* ------------------------------------------------------------ completed sets
\* POST /api/days/:id/completed: getDay, addCompleted, setTimerSeconds, getDay.
PostCompleted(c, id, item) ==
  /\ req[c] = Idle
  /\ Set(c, [Idle EXCEPT !.op = "PostCompleted", !.pc = "getDay_log", !.id = id,
                         !.item = item, !.phase = 1])
  /\ UNCHANGED <<store, now, copies, last>>

\* Seeded fault: the handler sets the timer whether or not it read a next set.
TimerWanted_Always(nextSet) == TRUE

\* `if (nextSet && nextSet.rest)`: whether the handler sets the timer.
TimerWanted(nextSet) == nextSet # <<>> /\ nextSet[1].rest # 0

\* INSERT INTO completed_sets ...; planned_set_id is `item.planned_set_id || null`
\* (0 stands for NULL), log_id and planned_set_id are foreign keys.
addCompleted_Insert(c) ==
  /\ req[c].pc = "addCompleted_insert"
  /\ serial.completed <= MaxCompleted
  /\ LET r == req[c]
         psid == r.item.planned_set_id
     IN IF ~ DayExists(r.id) \/ (psid # 0 /\ ~ PlannedExists(psid))
        THEN /\ Set(c, Fail(r))
             /\ UNCHANGED <<completed_sets, serial>>
        ELSE /\ completed_sets' = completed_sets \cup
                  {[id |-> serial.completed, log_id |-> r.id, exercise_id |-> r.exId,
                    planned_set_id |-> psid, reps_done |-> r.item.reps_done,
                    load_done |-> r.item.load_done, completed_at |-> now]}
             /\ serial' = [serial EXCEPT !.completed = @ + 1]
             /\ Set(c, [r EXCEPT !.newId = serial.completed, !.phase = 2,
                                 !.pc = IF TimerWanted(r.nextSet)
                                        THEN "setTimer_delete" ELSE "getDay_log"])
  /\ UNCHANGED <<tracked_exercises, split_notes>>
  /\ UNCHANGED <<daily_logs, planned_sets, split_sets, timer, exercises, now, copies,
                 last>>

\* setTimerSeconds: DELETE FROM timer
setTimer_Delete(c) ==
  /\ req[c].pc = "setTimer_delete"
  /\ timer' = {}
  /\ Set(c, [req[c] EXCEPT !.pc = "setTimer_insert"])
  /\ UNCHANGED <<tracked_exercises, split_notes>>
  /\ UNCHANGED <<daily_logs, planned_sets, completed_sets, split_sets, exercises,
                 serial, now, copies, last>>

\* The argument of setTimerSeconds: nextSet.rest, or what a direct caller passes.
SecondsArg(r) == IF r.op = "SetTimer" THEN NumberOrZero(r.seconds) ELSE r.nextSet[1].rest

\* Where a request goes on when setTimerSeconds returns.
AfterSetTimer(r) ==
  IF r.op = "PostCompleted"
  THEN [r EXCEPT !.pc = "getDay_log"]
  ELSE [r EXCEPT !.pc = "done", !.status = 200]

\* setTimerSeconds: INSERT INTO timer (timer_end_time) VALUES (CURRENT_TIMESTAMP + N seconds)
setTimer_Insert(c) ==
  /\ req[c].pc = "setTimer_insert"
  /\ timer' = timer \cup
       {[id |-> serial.timer,
         timer_end_time |-> now + TimerSeconds(SecondsArg(req[c])),
         created_at |-> now]}
  /\ serial' = [serial EXCEPT !.timer = @ + 1]
  /\ Set(c, AfterSetTimer(req[c]))
  /\ UNCHANGED <<tracked_exercises, split_notes>>
  /\ UNCHANGED <<daily_logs, planned_sets, completed_sets, split_sets, exercises, now,
                 copies, last>>

\* Seeded fault: the timer error reaches the handler's outer catch.
TimerErrorSwallowed_Rethrown(r) == Fail([r EXCEPT !.timerError = TRUE])

\* catch (timerError): the error is logged and the handler goes on to its reply.
TimerErrorSwallowed(r) == [r EXCEPT !.timerError = TRUE, !.pc = "getDay_log"]

\* setTimerSeconds throws: the connection, the DELETE or the INSERT failed.  A
\* failed INSERT leaves the table as the DELETE left it (no transaction).
setTimer_Throw(c) ==
  /\ req[c].pc \in {"setTimer_delete", "setTimer_insert"}
  /\ Set(c, IF req[c].op = "PostCompleted"
            THEN TimerErrorSwallowed(req[c])
            ELSE Fail([req[c] EXCEPT !.timerError = TRUE]))
  /\ UNCHANGED <<store, now, copies, last>>

\* db.setTimerSeconds(seconds), called directly (the set_timer tool).
SetTimer(c, seconds) ==
  /\ req[c] = Idle
  /\ Set(c, [Idle EXCEPT !.op = "SetTimer", !.pc = "setTimer_delete", !.seconds = seconds])
  /\ UNCHANGED <<store, now, copies, last>>

\* GET /api/timer
GetTimer(c) ==
  /\ req[c] = Idle
  /\ Set(c, [Idle EXCEPT !.op = "GetTimer", !.pc = "getTimerStatus"])
  /\ UNCHANGED <<store, now, copies, last>>

\* FROM timer ORDER BY id DESC LIMIT 1
LatestTimer == { t \in timer : \A u \in timer : u.id <= t.id }

\* EXTRACT(EPOCH FROM (timer_end_time - CURRENT_TIMESTAMP))::BIGINT.  The cast
\* rounds to the nearest second; `now` counts whole seconds, so the parts of a
\* second at the INSERT and at this SELECT are open: the difference d of the
\* whole seconds becomes d - 1, d or (once the clock has moved on) d + 1.
RemainingSeconds(t) ==
  LET d == t.timer_end_time - now
  IN {d - 1, d} \cup (IF now > t.created_at THEN {d + 1} ELSE {})

\* `Math.max(0, Number(row.remaining_seconds) || 0)`
ClampRemaining(n) == IF n > 0 THEN n ELSE 0

\* What getTimerStatus may return: {running, remainingSeconds, endsAt}.
TimerStatuses ==
  IF timer = {}
  THEN {[running |-> FALSE, remainingSeconds |-> 0, endsAt |-> <<>>]}
  ELSE UNION { { [running |-> ClampRemaining(n) > 0,
                  remainingSeconds |-> ClampRemaining(n),
                  endsAt |-> <<t.timer_end_time>>] : n \in RemainingSeconds(t) }
               : t \in LatestTimer }

\* Seeded fault: `remainingSeconds >= 0` for `remainingSeconds > 0`.
StatusOf_RunningAtZero(t) == IF t.remainingSeconds >= 0 THEN "running" ELSE "expired"

\* let status = 'no_timer'; if (t && typeof t.remainingSeconds === 'number') ...
StatusOf(t) ==
  IF t.remainingSeconds \in Int
  THEN IF t.remainingSeconds > 0 THEN "running" ELSE "expired"
  ELSE "no_timer"

\* getTimerStatus, then the reply {status, remaining_seconds, ends_at}.
getTimerStatus(c) ==
  /\ req[c].pc = "getTimerStatus"
  /\ \E t \in TimerStatuses :
       Set(c, [req[c] EXCEPT !.pc = "done", !.status = 200,
                             !.timerStatus = StatusOf(t),
                             !.remaining = ClampRemaining(t.remainingSeconds),
                             !.endsAt = t.endsAt])
  /\ UNCHANGED <<store, now, copies, last>>

\* PUT /api/completed/:id
PutCompleted(c, id, item) ==
  /\ req[c] = Idle
  /\ Set(c, [Idle EXCEPT !.op = "PutCompleted", !.pc = "getExerciseId_select",
                         !.id = id, !.item = item])
  /\ UNCHANGED <<store, now, copies, last>>

\* UPDATE completed_sets SET exercise_id, planned_set_id, reps_done, load_done WHERE id
updateCompleted_Update(c) ==
  /\ req[c].pc = "updateCompleted_update"
  /\ LET r == req[c]
         psid == r.item.planned_set_id
         hit == \E cs \in completed_sets : cs.id = r.id
     IN IF hit /\ psid # 0 /\ ~ PlannedExists(psid)
        THEN /\ Set(c, Fail(r))
             /\ UNCHANGED completed_sets
        ELSE /\ completed_sets' =
                  { IF cs.id = r.id
                    THEN [cs EXCEPT !.exercise_id = r.exId, !.planned_set_id = psid,
                                    !.reps_done = r.item.reps_done,
                                    !.load_done = r.item.load_done]
                    ELSE cs : cs \in completed_sets }
             /\ Set(c, [r EXCEPT !.pc = "done", !.status = 200])
  /\ UNCHANGED <<tracked_exercises, split_notes>>
  /\ UNCHANGED <<daily_logs, planned_sets, split_sets, timer, exercises, serial, now,
                 copies, last>>

\* DELETE /api/completed/:id
DeleteCompleted(c, id) ==
  /\ req[c] = Idle
  /\ Set(c, [Idle EXCEPT !.op = "DeleteCompleted", !.pc = "deleteCompleted", !.id = id])
  /\ UNCHANGED <<store, now, copies, last>>

deleteCompleted(c) ==
  /\ req[c].pc = "deleteCompleted"
  /\ completed_sets' = { cs \in completed_sets : cs.id # req[c].id }
  /\ Set(c, [req[c] EXCEPT !.pc = "done", !.status = 200])
  /\ UNCHANGED <<tracked_exercises, split_notes>>
  /\ UNCHANGED <<daily_logs, planned_sets, split_sets, timer, exercises, serial, now,
                 copies, last>>

\* ------------------------------------------------------------ deleteDay
\* DELETE /api/days/:id
DeleteDay(c, id) ==
  /\ req[c] = Idle
  /\ Set(c, [Idle EXCEPT !.op = "DeleteDay", !.pc = "deleteDay", !.id = id])
  /\ UNCHANGED <<store, now, copies, last>>

\* DELETE FROM daily_logs WHERE id: cascades to the Day's planned and completed
\* sets; a completed set of another Day that references one of the planned sets
\* (planned_set_id has no ON DELETE action) makes the statement fail.
deleteDay(c) ==
  /\ req[c].pc = "deleteDay"
  /\ LET id == req[c].id
         goneP == { ps \in planned_sets : ps.log_id = id }
         keptC == { cs \in completed_sets : cs.log_id # id }
     IN IF \E cs \in keptC : \E ps \in goneP : cs.planned_set_id = ps.id
        THEN /\ Set(c, Fail(req[c]))
             /\ UNCHANGED <<daily_logs, planned_sets, completed_sets>>
        ELSE /\ daily_logs' = { r \in daily_logs : r.id # id }
             /\ planned_sets' = planned_sets \ goneP
             /\ completed_sets' = keptC
             /\ Set(c, [req[c] EXCEPT !.pc = "done", !.status = 200])
  /\ UNCHANGED <<tracked_exercises, split_notes>>
  /\ UNCHANGED <<split_sets, timer, exercises, serial, now, copies, last>>

\* PUT /api/days/:id/summary {summary}: `req.body.summary || ''`
PutSummary(c, id, summary) ==
  /\ req[c] = Idle
  /\ Set(c, [Idle EXCEPT !.op = "PutSummary", !.pc = "updateSummary", !.id = id,
                         !.text = summary])
  /\ UNCHANGED <<store, now, copies, last>>

\* UPDATE daily_logs SET summary = $1 WHERE id = $2
updateSummary(c) ==
  /\ req[c].pc = "updateSummary"
  /\ daily_logs' = { IF r.id = req[c].id THEN [r EXCEPT !.summary = req[c].text] ELSE r :
                       r \in daily_logs }
  /\ Set(c, [req[c] EXCEPT !.pc = "done", !.status = 200])
  /\ UNCHANGED <<tracked_exercises, split_notes>>
  /\ UNCHANGED <<planned_sets, completed_sets, split_sets, timer, exercises, serial, now,
                 copies, last>>

\* ------------------------------------------------------------ split template
\* POST /api/split/:day
PostSplit(c, dow, item) ==
  /\ req[c] = Idle
  /\ Set(c, [Idle EXCEPT !.op = "PostSplit", !.pc = "getExerciseId_select", !.id = dow,
                         !.item = item])
  /\ UNCHANGED <<store, now, copies, last>>

addSplit_Insert(c) ==
  /\ req[c].pc = "addSplit_insert"
  /\ serial.split <= MaxSplit
  /\ LET r == req[c]
     IN /\ split_sets' = split_sets \cup
             {[id |-> serial.split, day_of_week |-> r.id, exercise_id |-> r.exId,
               order_num |-> r.item.order_num, reps |-> r.item.reps,
               load |-> r.item.load, rest |-> RestOrDefault(r.item.rest),
               relative |-> r.item.relative]}
        /\ serial' = [serial EXCEPT !.split = @ + 1]
        /\ Set(c, [r EXCEPT !.pc = "done", !.status = 200, !.newId = serial.split])
  /\ UNCHANGED <<tracked_exercises, split_notes>>
  /\ UNCHANGED <<daily_logs, planned_sets, completed_sets, timer, exercises, now, copies,
                 last>>

\* PUT /api/split/plan/:id
PutSplit(c, id, item) ==
  /\ req[c] = Idle
  /\ Set(c, [Idle EXCEPT !.op = "PutSplit", !.pc = "getExerciseId_select", !.id = id,
                         !.item = item])
  /\ UNCHANGED <<store, now, copies, last>>

\* UPDATE split_sets SET exercise_id, order_num, reps, load, rest, relative WHERE id
updateSplit_Update(c) ==
  /\ req[c].pc = "updateSplit_update"
  /\ LET r == req[c]
     IN /\ split_sets' =
             { IF ss.id = r.id
               THEN [ss EXCEPT !.exercise_id = r.exId, !.order_num = r.item.order_num,
                               !.reps = r.item.reps, !.load = r.item.load,
                               !.rest = RestOrDefault(r.item.rest),
                               !.relative = r.item.relative]
               ELSE ss : ss \in split_sets }
        /\ Set(c, [r EXCEPT !.pc = "done", !.status = 200])
  /\ UNCHANGED <<tracked_exercises, split_notes>>
  /\ UNCHANGED <<daily_logs, planned_sets, completed_sets, timer, exercises, serial,
                 now, copies, last>>

\* DELETE /api/split/plan/:id
DeleteSplit(c, id) ==
  /\ req[c] = Idle
  /\ Set(c, [Idle EXCEPT !.op = "DeleteSplit", !.pc = "deleteSplit", !.id = id])
  /\ UNCHANGED <<store, now, copies, last>>

deleteSplit(c) ==
  /\ req[c].pc = "deleteSplit"
  /\ split_sets' = { ss \in split_sets : ss.id # req[c].id }
  /\ Set(c, [req[c] EXCEPT !.pc = "done", !.status = 200])
  /\ UNCHANGED <<tracked_exercises, split_notes>>
  /\ UNCHANGED <<daily_logs, planned_sets, completed_sets, timer, exercises, serial,
                 now, copies, last>>


\* ------------------------------------------------------------ split notes
\* GET /api/split/notes
GetNotes(c) ==
  /\ req[c] = Idle
  /\ Set(c, [Idle EXCEPT !.op = "GetNotes", !.pc = "getNotes_select"])
  /\ UNCHANGED <<store, now, copies, last>>

\* SELECT notes, updated_at FROM split_notes ORDER BY updated_at DESC LIMIT 1
LatestNotes == { r \in split_notes : \A o \in split_notes : o.updated_at <= r.updated_at }

getNotes_Select(c) ==
  /\ req[c].pc = "getNotes_select"
  /\ IF split_notes = {}
     THEN Set(c, [req[c] EXCEPT !.pc = "getNotes_insert"])
     ELSE \E row \in LatestNotes :
            Set(c, [req[c] EXCEPT !.pc = "done", !.status = 200, !.text = row.notes])
  /\ UNCHANGED <<store, now, copies, last>>

\* No row was found: INSERT INTO split_notes (notes) VALUES ('')
getNotes_Insert(c) ==
  /\ req[c].pc = "getNotes_insert"
  /\ serial.notes <= MaxNotes
  /\ split_notes' = split_notes \cup {[id |-> serial.notes, notes |-> "", updated_at |-> now]}
  /\ serial' = [serial EXCEPT !.notes = @ + 1]
  /\ Set(c, [req[c] EXCEPT !.pc = "done", !.status = 200, !.text = ""])
  /\ UNCHANGED <<daily_logs, planned_sets, completed_sets, split_sets, timer, exercises,
                 tracked_exercises, now, copies, last>>

\* PUT /api/split/notes {notes}: setSplitNotes(String(notes || ''))
PutNotes(c, notes) ==
  /\ req[c] = Idle
  /\ Set(c, [Idle EXCEPT !.op = "PutNotes", !.pc = "setNotes_upsert", !.text = notes])
  /\ UNCHANGED <<store, now, copies, last>>

\* INSERT INTO split_notes (notes) VALUES ($1) ON CONFLICT (id) DO NOTHING: the id
\* comes from the sequence, so there is no conflict and a row is added.
setNotes_Upsert(c) ==
  /\ req[c].pc = "setNotes_upsert"
  /\ serial.notes <= MaxNotes
  /\ split_notes' = split_notes \cup
       {[id |-> serial.notes, notes |-> req[c].text, updated_at |-> now]}
  /\ serial' = [serial EXCEPT !.notes = @ + 1]
  /\ Set(c, [req[c] EXCEPT !.pc = "setNotes_delete"])
  /\ UNCHANGED <<daily_logs, planned_sets, completed_sets, split_sets, timer, exercises,
                 tracked_exercises, now, copies, last>>

\* DELETE FROM split_notes
setNotes_Delete(c) ==
  /\ req[c].pc = "setNotes_delete"
  /\ split_notes' = {}
  /\ Set(c, [req[c] EXCEPT !.pc = "setNotes_insert"])
  /\ UNCHANGED <<daily_logs, planned_sets, completed_sets, split_sets, timer, exercises,
                 tracked_exercises, serial, now, copies, last>>

\* INSERT INTO split_notes (notes, updated_at) VALUES ($1, CURRENT_TIMESTAMP)
setNotes_Insert(c) ==
  /\ req[c].pc = "setNotes_insert"
  /\ serial.notes <= MaxNotes
  /\ split_notes' = split_notes \cup
       {[id |-> serial.notes, notes |-> req[c].text, updated_at |-> now]}
  /\ serial' = [serial EXCEPT !.notes = @ + 1]
  /\ Set(c, [req[c] EXCEPT !.pc = "done", !.status = 200])
  /\ UNCHANGED <<daily_logs, planned_sets, completed_sets, split_sets, timer, exercises,
                 tracked_exercises, now, copies, last>>

\* ------------------------------------------------------------ request inputs
SplitRow(id, dow, order, rest) ==
  [id |-> id, day_of_week |-> dow, exercise_id |-> 1, order_num |-> order, reps |-> 5,
   load |-> 100, rest |-> rest, relative |-> FALSE]

\* Request bodies the UI sends: its rest field is a text input, so "0" arrives as
\* a string; an absent rest takes the default.
PlanItems ==
  { [NoItem EXCEPT !.exercise = "Squat", !.reps = 5, !.load = 100, !.rest = rest,
                   !.order_num = 0] : rest \in {JsUndef, JsStr(0)} }

CompletedItem(psid) ==
  [NoItem EXCEPT !.exercise = "Squat", !.reps_done = 5, !.load_done = 100,
                 !.planned_set_id = psid]

CompletedItems == { CompletedItem(psid) : psid \in 0 .. MaxPlanned }

\* Bodies that name no Planned Set or one of those stored.
LinkedItems == { CompletedItem(psid) : psid \in {0} \cup { ps.id : ps \in planned_sets } }

StoredDays == { r.id : r \in daily_logs }
StoredCompleted == { cs.id : cs \in completed_sets }

SplitItems ==
  { [NoItem EXCEPT !.exercise = "Squat", !.reps = 5, !.load = 100, !.rest = rest,
                   !.order_num = order] :
      rest \in {JsUndef, JsNum(90)}, order \in {1, 2} }

NotesInputs == {"", "push", "pull"}

DayIds == 1 .. MaxDays
PlannedIds == 1 .. MaxPlanned
CompletedIds == 1 .. MaxCompleted

\* ------------------------------------------------------------ specifications
\* The whole backend from an empty database.
Next ==
  \/ Tick
  \/ NextDay
  \/ \E c \in Clients :
       \/ \E date \in Dates : PostDays(c, date)
       \/ GetDays(c)
       \/ \E id \in DayIds : GetDay(c, id)
       \/ \E id \in DayIds : DeleteDay(c, id)
       \/ \E id \in DayIds, item \in PlanItems : PostPlan(c, id, item)
       \/ \E id \in PlannedIds, item \in PlanItems : PutPlan(c, id, item)
       \/ \E id \in PlannedIds : DeletePlan(c, id)
       \/ \E id \in DayIds, item \in CompletedItems : PostCompleted(c, id, item)
       \/ \E id \in CompletedIds, item \in CompletedItems : PutCompleted(c, id, item)
       \/ \E id \in CompletedIds : DeleteCompleted(c, id)
       \/ \E id \in DayIds, summary \in {"", "done"} : PutSummary(c, id, summary)
       \/ \E dow \in {Weekday(d) : d \in Dates}, item \in SplitItems : PostSplit(c, dow, item)
       \/ \E ss \in split_sets, item \in SplitItems : PutSplit(c, ss.id, item)
       \/ \E ss \in split_sets : DeleteSplit(c, ss.id)
       \/ \E seconds \in {JsNum(0), JsNum(2), JsText} :
            serial.timer <= MaxTimers /\ SetTimer(c, seconds)
       \/ GetTimer(c)
       \/ GetNotes(c)
       \/ \E notes \in NotesInputs : PutNotes(c, notes)
       \/ GetPRs(c)
       \/ LoadPRs(c)
       \/ \E exercise \in {"Squat", "squat"} : PostTracked(c, exercise)
       \/ \E exercise \in {"Squat", "squat"} : DeleteTracked(c, exercise)
       \/ ensureDay_Select(c)
       \/ ensureDay_Insert(c)
       \/ applySplit_Count(c)
       \/ applySplit_Select(c)
       \/ applySplit_Insert(c)
       \/ getAllDays(c)
       \/ getDay_Log(c)
       \/ getDay_Plan(c)
       \/ getPRs_Tracked(c)
       \/ getPRs_Query(c)
       \/ addTrackedExercise(c)
       \/ removeTrackedExercise(c)
       \/ getDay_Completed(c)
       \/ getExerciseId_Select(c)
       \/ getExerciseId_Insert(c)
       \/ addPlan_Insert(c)
       \/ updatePlan_Update(c)
       \/ deletePlan(c)
       \/ updateSummary(c)
       \/ addCompleted_Insert(c)
       \/ setTimer_Delete(c)
       \/ setTimer_Insert(c)
       \/ setTimer_Throw(c)
       \/ getTimerStatus(c)
       \/ updateCompleted_Update(c)
       \/ deleteCompleted(c)
       \/ deleteDay(c)
       \/ addSplit_Insert(c)
       \/ updateSplit_Update(c)
       \/ deleteSplit(c)
       \/ getNotes_Select(c)
       \/ getNotes_Insert(c)
       \/ setNotes_Upsert(c)
       \/ setNotes_Delete(c)
       \/ setNotes_Insert(c)
       \/ Return(c)

Spec == Init /\ [][Next]_vars

\* A database whose Thursday template holds two rows, A (rest 60) then B (rest 90),
\* as two POST /api/split/4 requests leave it.
TemplateStore ==
  /\ daily_logs = {}
  /\ planned_sets = {}
  /\ completed_sets = {}
  /\ timer = {}
  /\ exercises = {[id |-> 1, name |-> "Squat"]}
  /\ tracked_exercises = DefaultTracked
  /\ split_notes = {}
  /\ split_sets = {SplitRow(1, 4, 1, 60), SplitRow(2, 4, 2, 90)}
  /\ serial = [day |-> 1, planned |-> 1, completed |-> 1, split |-> 3, timer |-> 1,
               exercise |-> 2, notes |-> 1]

\* Day creation and first reads, by concurrent requests.
InitDays == TemplateStore /\ Quiet

NextDays ==
  \/ NextDay
  \/ \E c \in Clients :
       \/ \E date \in Dates : PostDays(c, date)
       \/ GetDays(c)
       \/ \E id \in DayIds : GetDay(c, id)
       \/ ensureDay_Select(c)
       \/ ensureDay_Insert(c)
       \/ applySplit_Count(c)
       \/ applySplit_Select(c)
       \/ applySplit_Insert(c)
       \/ getAllDays(c)
       \/ getDay_Log(c)
       \/ getDay_Plan(c)
       \/ getPRs_Tracked(c)
       \/ getPRs_Query(c)
       \/ getDay_Completed(c)
       \/ Return(c)

SpecDays == InitDays /\ [][NextDays]_vars


\* ensureTodayPlan called again and again by one caller, nothing in between;
\* the Thursday template holds no row, one row or two.
OneRowStore ==
  /\ daily_logs = {}
  /\ planned_sets = {}
  /\ completed_sets = {}
  /\ timer = {}
  /\ exercises = {[id |-> 1, name |-> "Squat"]}
  /\ tracked_exercises = DefaultTracked
  /\ split_notes = {}
  /\ split_sets = {SplitRow(1, 4, 1, 60)}
  /\ serial = [day |-> 1, planned |-> 1, completed |-> 1, split |-> 2, timer |-> 1,
               exercise |-> 2, notes |-> 1]

InitTwice == (EmptyStore \/ OneRowStore \/ TemplateStore) /\ Quiet

NextTwice ==
  \/ NextDay
  \/ \E c \in {1} :
       \/ GetDays(c)
       \/ ensureDay_Select(c)
       \/ ensureDay_Insert(c)
       \/ applySplit_Count(c)
       \/ applySplit_Select(c)
       \/ applySplit_Insert(c)
       \/ getAllDays(c)
       \/ Return(c)

SpecTwice == InitTwice /\ [][NextTwice]_vars

\* One caller at a time: plans, completions and the timer.
InitSeq == TemplateStore /\ Quiet

NextSeq ==
  \/ Tick
  \/ \E c \in {1} :
       \/ GetDays(c)
       \/ \E id \in DayIds : GetDay(c, id)
       \/ \E id \in DayIds, item \in PlanItems : PostPlan(c, id, item)
       \/ \E id \in PlannedIds : DeletePlan(c, id)
       \/ \E id \in DayIds, item \in CompletedItems : PostCompleted(c, id, item)
       \/ \E id \in CompletedIds, item \in CompletedItems : PutCompleted(c, id, item)
       \/ \E id \in CompletedIds : DeleteCompleted(c, id)
       \/ ensureDay_Select(c)
       \/ ensureDay_Insert(c)
       \/ applySplit_Count(c)
       \/ applySplit_Select(c)
       \/ applySplit_Insert(c)
       \/ getAllDays(c)
       \/ getDay_Log(c)
       \/ getDay_Plan(c)
       \/ getPRs_Tracked(c)
       \/ getPRs_Query(c)
       \/ getDay_Completed(c)
       \/ getExerciseId_Select(c)
       \/ addPlan_Insert(c)
       \/ deletePlan(c)
       \/ addCompleted_Insert(c)
       \/ setTimer_Delete(c)
       \/ setTimer_Insert(c)
       \/ updateCompleted_Update(c)
       \/ deleteCompleted(c)
       \/ Return(c)

SpecSeq == InitSeq /\ [][NextSeq]_vars

\* Concurrent requests against a Thursday whose template has been cloned (Day 1,
\* planned sets A and B) and a Friday with no plan (Day 2).
QueueStore ==
  /\ daily_logs = {[id |-> 1, log_date |-> 0, summary |-> ""],
                   [id |-> 2, log_date |-> 1, summary |-> ""]}
  /\ planned_sets = {PlannedFromSplit(1, 1, SplitRow(1, 4, 1, 60)),
                     PlannedFromSplit(2, 1, SplitRow(2, 4, 2, 90))}
  /\ completed_sets = {}
  /\ timer = {}
  /\ exercises = {[id |-> 1, name |-> "Squat"]}
  /\ tracked_exercises = DefaultTracked
  /\ split_notes = {}
  /\ split_sets = {SplitRow(1, 4, 1, 60), SplitRow(2, 4, 2, 90)}
  /\ serial = [day |-> 3, planned |-> 3, completed |-> 1, split |-> 3, timer |-> 1,
               exercise |-> 2, notes |-> 1]

\* Connection 1 reads the Day while connection 2 logs and deletes Completed Sets.
InitQueue ==
  /\ QueueStore
  /\ now = SecondsPerDay
  /\ req = [c \in Clients |-> Idle]
  /\ copies = [d \in 1 .. MaxDays + 1 |-> IF d = 1 THEN 1 ELSE 0]
  /\ last = [date |-> 0, id |-> 1, count |-> 2, n |-> 1]

NextQueue ==
  \/ \E id \in StoredDays : GetDay(1, id)
  \/ \E id \in StoredDays, item \in LinkedItems : PostCompleted(2, id, item)
  \/ \E id \in StoredCompleted : DeleteCompleted(2, id)
  \/ \E c \in Clients :
    \/ applySplit_Count(c)
    \/ applySplit_Select(c)
    \/ getDay_Log(c)
    \/ getDay_Plan(c)
    \/ getPRs_Tracked(c)
    \/ getPRs_Query(c)
    \/ getDay_Completed(c)
    \/ getExerciseId_Select(c)
    \/ addCompleted_Insert(c)
    \/ setTimer_Delete(c)
    \/ setTimer_Insert(c)
    \/ deleteCompleted(c)
    \/ Return(c)

SpecQueue == InitQueue /\ [][NextQueue]_vars

\* ------------------------------------------------------------ claims: Day creation
\* C1: in every reachable state, after any interleaving of ensureDay, createDay,
\* ensureTodayPlan and listDays calls, at most one Day row exists for any date.
DayUniqueness ==
  \A a \in daily_logs : \A b \in daily_logs : a.log_date = b.log_date => a = b

\* C1 witness: an ensureDay call lost the insert race (its INSERT was refused)
\* and the date has exactly one Day row.
DayUniquenessWitness ==
  \E c \in Clients :
    /\ req[c].op \in {"PostDays", "GetDays"}
    /\ req[c].pc = "done"
    /\ req[c].status = 500
    /\ Cardinality(DaysOn(req[c].date)) = 1

\* C2: two ensureDay(D) calls that run concurrently while no Day for D exists
\* both return successfully, with the same Day id.
ConcurrentEnsureDayBothSucceed ==
  \A c1 \in Clients : \A c2 \in Clients :
    ( /\ c1 # c2
      /\ At(c1, "PostDays", "done")
      /\ At(c2, "PostDays", "done")
      /\ req[c1].date = req[c2].date )
    => ( /\ req[c1].status = 200
         /\ req[c2].status = 200
         /\ req[c1].logId = req[c2].logId )

\* C4: two concurrent first reads of a Day with no Planned Sets insert the
\* template once: the Day never holds more rows than its weekday's template.
ConcurrentFirstReadsCopyOnce ==
  \A d \in daily_logs :
    PlannedCount(d.id) <= Cardinality(SplitFor(Weekday(d.log_date)))

\* ------------------------------------------------------------ claims: template copy
\* C3: the weekday template is copied into a Day at most once over the Day's
\* lifetime, whatever planned sets are added or deleted and whatever completed
\* sets are recorded or deleted in between.
TemplateCopiedAtMostOnce == \A d \in DOMAIN copies : copies[d] <= 1

\* C5: ensureDay followed by applySplitIfEmpty, run a second time for the same
\* date, returns the same Day id and leaves the same number of Planned Sets as
\* the first run did.
EnsureTodayPlanTwice ==
  [][ (last' # last /\ last.n > 0 /\ last'.date = last.date)
      => (last'.id = last.id /\ last'.count = last.count) ]_vars

\* C5 witness: the pair has run twice for one date, on a Day that holds the
\* cloned template.
EnsureTodayPlanTwiceWitness == last.n = 2 /\ last.count > 0

\* ------------------------------------------------------------ claims: active queue
\* C6: whenever getDay runs its plan query for a Day, a Planned Set of that Day
\* is in the plan it returns if and only if no Completed Set references it.
QueueExcludesCompleted ==
  [][ \A c \in Clients :
        (req[c].pc = "getDay_plan" /\ req'[c].pc # "getDay_plan")
        => \A p \in planned_sets :
             p.log_id = req[c].id
             => ( (\E i \in 1 .. Len(req'[c].plan) : req'[c].plan[i] = p)
                  <=> ~ \E cs \in completed_sets : cs.planned_set_id = p.id ) ]_vars

\* C6 witness: GET /api/days/1 has answered with the plan [B] while a
\* Completed Set references A.
QueueExcludesCompletedWitness ==
  /\ At(1, "GetDay", "done")
  /\ req[1].status = 200
  /\ req[1].id = 1
  /\ Len(req[1].plan) = 1
  /\ req[1].plan[1].id = 2
  /\ \E cs \in completed_sets : cs.planned_set_id = 1

\* C7: COMPLETED is terminal: a Planned Set that a Completed Set references is
\* still referenced after every step that keeps it, so it never re-enters the
\* active queue.
CompletedIsTerminal ==
  [][ \A p \in planned_sets :
        (PlannedReferenced(p.id) /\ p \in planned_sets')
        => \E cs \in completed_sets' : cs.planned_set_id = p.id ]_vars

\* C8: each Planned Set is referenced by at most one Completed Set.
AtMostOneCompletion ==
  \A a \in completed_sets : \A b \in completed_sets :
    (a.planned_set_id # 0 /\ a.planned_set_id = b.planned_set_id) => a = b

\* ------------------------------------------------------------ claims: rest timer
\* C9: when the active queue is [A(rest 60), B(rest 90)] and a completion linked
\* to A has been answered, the timer runs for B's rest and the active queue is [B].
CompleteHeadSetsFollowerRest ==
  \A c \in Clients :
    ( /\ At(c, "PostCompleted", "done")
      /\ req[c].status = 200
      /\ Len(req[c].dayData) = 2
      /\ req[c].dayData[1].rest = 60
      /\ req[c].dayData[2].rest = 90
      /\ req[c].item.planned_set_id = req[c].dayData[1].id )
    => ( /\ \E t \in timer : t.timer_end_time - t.created_at = req[c].dayData[2].rest
         /\ { p.id : p \in ActivePlan(req[c].id) } = {req[c].dayData[2].id} )

\* C10: when a completion has been answered and the active queue it read before
\* its insert was not empty, the timer has been reset, after that insert, to the
\* rest of the set that was then at the head of the queue.
CompleteResetsTimerToHeadRest ==
  \A c \in Clients :
    ( /\ At(c, "PostCompleted", "done")
      /\ req[c].status = 200
      /\ Len(req[c].dayData) > 0 )
    => \E t \in timer :
         /\ t.timer_end_time - t.created_at = req[c].dayData[1].rest
         /\ \E cs \in completed_sets : cs.id = req[c].newId /\ cs.completed_at <= t.created_at

\* ------------------------------------------------------------ timer failures
\* One caller logs Completed Sets against the cloned Thursday; setTimerSeconds
\* may throw at either of its statements.
InitFail == InitQueue

NextFail ==
  \/ \E id \in StoredDays, item \in LinkedItems : PostCompleted(1, id, item)
  \/ applySplit_Count(1)
  \/ applySplit_Select(1)
  \/ getDay_Log(1)
  \/ getDay_Plan(1)
  \/ getPRs_Tracked(1)
  \/ getPRs_Query(1)
  \/ getDay_Completed(1)
  \/ getExerciseId_Select(1)
  \/ addCompleted_Insert(1)
  \/ setTimer_Delete(1)
  \/ setTimer_Insert(1)
  \/ setTimer_Throw(1)
  \/ Return(1)

SpecFail == InitFail /\ [][NextFail]_vars

\* C11: when resetting the timer has failed after the Completed Set was
\* written, the Completed Set stays stored and the completion is answered with
\* success.
TimerFailureKeepsCompletion ==
  \A c \in Clients :
    (req[c].op = "PostCompleted" /\ req[c].timerError)
    => /\ \E cs \in completed_sets : cs.id = req[c].newId /\ cs.log_id = req[c].id
       /\ req[c].pc = "done" => req[c].status = 200

\* C11 witness: a completion has been answered after its timer reset failed
\* between the DELETE and the INSERT, so no timer row is left.
TimerFailureKeepsCompletionWitness ==
  /\ At(1, "PostCompleted", "done")
  /\ req[1].timerError
  /\ req[1].completed # {}
  /\ timer = {}

\* ------------------------------------------------------------ rest timer
\* What a caller may pass to setTimerSeconds.
TimerInputs == {JsNum(0 - 1), JsNum(0), JsNum(2), JsText}

\* Concurrent callers set the timer and read its status while the clock runs.
InitTimer == EmptyStore /\ Quiet

NextTimer ==
  \/ Second
  \/ \E c \in Clients :
       \/ \E seconds \in TimerInputs : serial.timer <= MaxTimers /\ SetTimer(c, seconds)
       \/ GetTimer(c)
       \/ setTimer_Delete(c)
       \/ setTimer_Insert(c)
       \/ setTimer_Throw(c)
       \/ getTimerStatus(c)
       \/ Return(c)

SpecTimer == InitTimer /\ [][NextTimer]_vars

\* C12: GET /api/timer answers no_timer when the timer table is empty, and
\* answers expired only when a timer row exists.
NoTimerReported ==
  \A c \in Clients :
    At(c, "GetTimer", "done")
    => /\ req[c].endsAt = <<>> => req[c].timerStatus = "no_timer"
       /\ req[c].timerStatus = "expired" => req[c].endsAt # <<>>

\* C13: a status read after set(s), s > 0, with no later set, reports running
\* with 0 < remainingSeconds <= s as long as fewer than s seconds have elapsed,
\* and expired with remainingSeconds 0 once more than s seconds have elapsed.
TimerRunsUntilElapsed ==
  [][ \A c \in Clients :
        (req[c].pc = "getTimerStatus" /\ req'[c].pc = "done")
        => \A t \in LatestTimer :
             LET s == t.timer_end_time - t.created_at
                 e == now - t.created_at
             IN s > 0
                => /\ e < s => /\ req'[c].timerStatus = "running"
                               /\ 0 < req'[c].remaining
                               /\ req'[c].remaining <= s
                   /\ e > s => /\ req'[c].timerStatus = "expired"
                               /\ req'[c].remaining = 0 ]_vars

\* C13 (amended): the read reports running with 0 < remainingSeconds <= s while
\* more than a second of the s seconds is left; within the last second it may
\* report either running or expired, because the remaining time is rounded to
\* whole seconds; once more than s seconds have elapsed it reports expired with
\* remainingSeconds 0.  It reports running exactly when remainingSeconds > 0.
TimerRunsUntilLastSecond ==
  [][ \A c \in Clients :
        (req[c].pc = "getTimerStatus" /\ req'[c].pc = "done")
        => \A t \in LatestTimer :
             LET s == t.timer_end_time - t.created_at
                 e == now - t.created_at
             IN s > 0
                => /\ e < s - 1 => req'[c].timerStatus = "running"
                   /\ e > s => req'[c].timerStatus = "expired"
                   /\ req'[c].timerStatus = "running" <=> req'[c].remaining > 0
                   /\ req'[c].timerStatus = "expired" <=> req'[c].remaining = 0
                   /\ req'[c].remaining <= s ]_vars

\* C13 witness: set(2) and, in the same second, a status read that reports
\* running with 2 seconds remaining.
TimerRunsUntilLastSecondWitness ==
  \E c \in Clients :
    /\ At(c, "GetTimer", "done")
    /\ req[c].timerStatus = "running"
    /\ req[c].remaining = 2
    /\ \E t \in LatestTimer : t.created_at = now /\ req[c].endsAt = <<now + 2>>

\* Two callers log Completed Sets against the cloned Thursday at the same time.
InitRace == InitQueue

NextRace ==
  \E c \in Clients :
    \/ \E id \in StoredDays, item \in LinkedItems : PostCompleted(c, id, item)
    \/ applySplit_Count(c)
    \/ applySplit_Select(c)
    \/ getDay_Log(c)
    \/ getDay_Plan(c)
    \/ getPRs_Tracked(c)
    \/ getPRs_Query(c)
    \/ getDay_Completed(c)
    \/ getExerciseId_Select(c)
    \/ addCompleted_Insert(c)
    \/ setTimer_Delete(c)
    \/ setTimer_Insert(c)
    \/ Return(c)

SpecRace == InitRace /\ [][NextRace]_vars

\* C14: after any interleaving of the timer sets issued by concurrent
\* completions, the timer table holds at most one row.
TimerHoldsOneRow == Cardinality(timer) <= 1

\* C15: set(seconds) stores the end time now + max(0, seconds), so a negative
\* or non-numeric argument gives a timer that ends now, and no status read
\* reports a negative remainingSeconds.
TimerClampsToZero ==
  [][ \A c \in Clients :
        /\ ( /\ req[c].op = "SetTimer"
             /\ req[c].pc = "setTimer_insert"
             /\ req'[c].pc = "done"
             /\ req'[c].status = 200 )
           => \E t \in timer' \ timer :
                LET x == req[c].seconds
                IN t.timer_end_time = now + (IF x.t = "number" /\ x.v > 0 THEN x.v ELSE 0)
        /\ req'[c].op = "GetTimer" => req'[c].remaining >= 0 ]_vars

\* C15 witness: set(-1) has returned and the row it wrote ends at the second it
\* was written.
TimerClampsToZeroWitness ==
  \E c \in Clients :
    /\ At(c, "SetTimer", "done")
    /\ req[c].status = 200
    /\ req[c].seconds = JsNum(0 - 1)
    /\ \E t \in LatestTimer : t.timer_end_time = now /\ t.created_at = now

\* ------------------------------------------------------------ load resolution
\* Personal records and relative loads, one request at a time.  Day 1 (Thursday)
\* holds an absolute and a relative Squat set; Day 2 (Friday) has no plan and a
\* template with one relative Bench set.  The tracked names and the Completed Sets
\* on record are drawn from the sets below.
Done(id, exId, reps, load) ==
  [id |-> id, log_id |-> 1, exercise_id |-> exId, planned_set_id |-> 0,
   reps_done |-> reps, load_done |-> load, completed_at |-> 0]

LoadsCompleted ==
  {Done(1, 1, 1, 100), Done(2, 1, 5, 90), Done(3, 1, 5, 80), Done(4, 2, 5, 90),
   Done(5, 1, 0, 200)}

LoadsTracked == {"Squat", "squat", "Bench"}

LoadsTemplate == [SplitRow(1, 5, 1, 60) EXCEPT !.exercise_id = 2, !.load = 50, !.relative = TRUE]

LoadsStore ==
  /\ daily_logs = {[id |-> 1, log_date |-> 0, summary |-> ""],
                   [id |-> 2, log_date |-> 1, summary |-> ""]}
  /\ planned_sets = {PlannedFromSplit(1, 1, SplitRow(1, 4, 1, 60)),
                     PlannedFromSplit(2, 1, [SplitRow(2, 4, 2, 60) EXCEPT !.load = 80,
                                                                         !.relative = TRUE])}
  /\ completed_sets \in SUBSET LoadsCompleted
  /\ timer = {}
  /\ exercises = {[id |-> 1, name |-> "Squat"], [id |-> 2, name |-> "Bench"]}
  /\ tracked_exercises \in SUBSET LoadsTracked
  /\ split_notes = {}
  /\ split_sets = {LoadsTemplate}
  /\ serial = [day |-> 3, planned |-> 3, completed |-> 6, split |-> 2, timer |-> 1,
               exercise |-> 3, notes |-> 1]

InitLoads == LoadsStore /\ Quiet

NextLoads ==
  \/ GetDays(1)
  \/ GetPRs(1)
  \/ \E id \in StoredDays : GetDay(1, id)
  \/ \E id \in StoredCompleted : DeleteCompleted(1, id)
  \/ \E exercise \in LoadsTracked : PostTracked(1, exercise)
  \/ \E exercise \in LoadsTracked : DeleteTracked(1, exercise)
  \/ ensureDay_Select(1)
  \/ getAllDays(1)
  \/ applySplit_Count(1)
  \/ applySplit_Select(1)
  \/ applySplit_Insert(1)
  \/ getDay_Log(1)
  \/ getDay_Plan(1)
  \/ getPRs_Tracked(1)
  \/ getPRs_Query(1)
  \/ getDay_Completed(1)
  \/ deleteCompleted(1)
  \/ addTrackedExercise(1)
  \/ removeTrackedExercise(1)
  \/ Return(1)

SpecLoads == InitLoads /\ [][NextLoads]_vars

\* C16: getDay returns every Planned Set with originalLoad equal to its stored
\* load; calculatedLoad is the stored load of an absolute set and, for a relative
\* set, round(R * pct / 100), where pct is the stored load and R is the greatest
\* estimate among the records found under the lower-cased exercise name, 0 when
\* there is no such entry.
LoadResolution ==
  [][\A c \in Clients :
       (req[c].pc \in {"getPRs_tracked", "getPRs_query"} /\ req'[c].pc = "getDay_completed") =>
         \A i \in DOMAIN req[c].plan :
           LET stored == CHOOSE p \in planned_sets : p.id = req[c].plan[i].id
               out == req'[c].plan[i]
               name == Lower(ExerciseName(stored.exercise_id))
               prs == req'[c].prs
               E == { IF prs[name][k].reps = 1
                      THEN 30 * prs[name][k].maxLoad
                      ELSE prs[name][k].maxLoad * (30 + prs[name][k].reps) :
                      k \in DOMAIN prs[name] }
               R30 == IF name \in DOMAIN prs
                      THEN CHOOSE m \in E : \A e \in E : e <= m
                      ELSE 0
           IN /\ out.id = stored.id
              /\ out.originalLoad = stored.load
              /\ ~stored.relative => out.calculatedLoad = stored.load
              /\ stored.relative =>
                   /\ 6000 * out.calculatedLoad <= 2 * R30 * stored.load + 3000
                   /\ 6000 * out.calculatedLoad > 2 * R30 * stored.load - 3000
    ]_vars

\* A reply for Day 1 with the absolute set at its stored 100 and the relative set
\* (80 percent) resolved to 84 against a 1RM of 105.
LoadResolutionWitness ==
  /\ At(1, "GetDay", "done")
  /\ Len(req[1].plan) = 2
  /\ ~req[1].plan[1].relative
  /\ req[1].plan[1].calculatedLoad = 100 /\ req[1].plan[1].originalLoad = 100
  /\ req[1].plan[2].relative
  /\ req[1].plan[2].calculatedLoad = 84 /\ req[1].plan[2].originalLoad = 80

\* C17: no step of getDay, listDays, getPRs or the template copy they trigger
\* changes the stored load of an existing Planned Set, and a Planned Set cloned
\* from the template stores the template's load (the percentage, for a relative
\* row) unconverted.
LoadNeverPersisted ==
  [][/\ \A p \in planned_sets :
          \E q \in planned_sets' : q.id = p.id /\ q.load = p.load /\ q.relative = p.relative
     /\ \A q \in planned_sets' \ planned_sets :
          \E row \in split_sets :
            /\ q.exercise_id = row.exercise_id
            /\ q.order_num = row.order_num
            /\ q.relative = row.relative
            /\ q.load = row.load
    ]_vars

\* Day 2's relative Bench set is shown at 53 while its row still stores 50 percent.
LoadNeverPersistedWitness ==
  /\ At(1, "GetDay", "done")
  /\ req[1].id = 2
  /\ \E i \in DOMAIN req[1].plan :
       /\ req[1].plan[i].relative
       /\ req[1].plan[i].calculatedLoad = 53
       /\ \E p \in planned_sets :
            p.id = req[1].plan[i].id /\ p.log_id = 2 /\ p.relative /\ p.load = 50

\* C18: the 1RM of an exercise is the greatest, over its records, of maxLoad for a
\* 1-rep record and maxLoad * (1 + reps / 30) otherwise; {(1,100)} gives 100,
\* {(5,90)} gives 105, and an exercise without records has 0.
OneRMIsMaxEstimate ==
  \A c \in Clients :
    LET prs == req[c].prs
    IN /\ \A name \in DOMAIN prs :
            LET E == { IF prs[name][k].reps = 1
                       THEN 30 * prs[name][k].maxLoad
                       ELSE prs[name][k].maxLoad * (30 + prs[name][k].reps) :
                       k \in DOMAIN prs[name] }
            IN /\ OneRMs(prs)[name] \in E
               /\ \A e \in E : e <= OneRMs(prs)[name]
               /\ prs[name] = <<[reps |-> 1, maxLoad |-> 100]>> => OneRMs(prs)[name] = 30 * 100
               /\ prs[name] = <<[reps |-> 5, maxLoad |-> 90]>> => OneRMs(prs)[name] = 30 * 105
       /\ \A e \in exercises :
            Lower(e.name) \notin DOMAIN prs => OneRMFor(OneRMs(prs), e.name) = 0

\* Squat has the single record (5, 90): its 1RM is 105 and 80 percent resolves to 84.
OneRMIsMaxEstimateWitness ==
  /\ At(1, "GetDay", "done")
  /\ "squat" \in DOMAIN req[1].prs
  /\ "bench" \notin DOMAIN req[1].prs
  /\ req[1].prs["squat"] = <<[reps |-> 5, maxLoad |-> 90]>>
  /\ OneRMs(req[1].prs)["squat"] = 30 * 105
  /\ \E i \in DOMAIN req[1].plan :
       req[1].plan[i].relative /\ req[1].plan[i].calculatedLoad = 84

\* C19 as stated: with a 1-rep record on file the 1RM is that record's load.
TrueOneRepWins ==
  \A c \in Clients : \A name \in DOMAIN req[c].prs :
    \A k \in DOMAIN req[c].prs[name] :
      req[c].prs[name][k].reps = 1 =>
        OneRMs(req[c].prs)[name] = 30 * req[c].prs[name][k].maxLoad

\* C19: with a 1-rep record on file the 1RM is at least that record's load, and
\* equals it exactly when no higher-rep estimate exceeds it; for the records
\* {(1,100), (5,90)} the 1RM is the estimate 105.
TrueOneRepIsFloor ==
  \A c \in Clients : \A name \in DOMAIN req[c].prs :
    LET records == req[c].prs[name]
        rm30 == OneRMs(req[c].prs)[name]
    IN /\ \A k \in DOMAIN records :
            records[k].reps = 1 =>
              /\ rm30 >= 30 * records[k].maxLoad
              /\ rm30 = 30 * records[k].maxLoad <=>
                   \A j \in DOMAIN records :
                     records[j].maxLoad * (30 + records[j].reps) <= 30 * records[k].maxLoad
                       \/ records[j].reps = 1
       /\ records = <<[reps |-> 1, maxLoad |-> 100], [reps |-> 5, maxLoad |-> 90]>> =>
            rm30 = 30 * 105

\* Squat has the records (1, 100) and (5, 90): 80 percent resolves to 84, not 80.
TrueOneRepIsFloorWitness ==
  /\ At(1, "GetDay", "done")
  /\ "squat" \in DOMAIN req[1].prs
  /\ req[1].prs["squat"] = <<[reps |-> 1, maxLoad |-> 100], [reps |-> 5, maxLoad |-> 90]>>
  /\ \E i \in DOMAIN req[1].plan :
       req[1].plan[i].relative /\ req[1].plan[i].originalLoad = 80
         /\ req[1].plan[i].calculatedLoad = 84

\* C20: getPRs answers with one entry per tracked exercise (names compared in
\* lower case) that has a Completed Set with reps_done > 0 and load_done > 0; the
\* entry lists, in ascending order of reps, each such rep count once with the
\* greatest load done at it.  Other exercises are absent.
PRsAreMaxPerReps ==
  \A c \in Clients :
    At(c, "GetPRs", "done") =>
      LET prs == req[c].prs
          tracked == { Lower(x) : x \in tracked_exercises }
          sets(name) == { cs \in completed_sets :
                            /\ cs.reps_done > 0
                            /\ cs.load_done > 0
                            /\ \E e \in exercises :
                                 e.id = cs.exercise_id /\ Lower(e.name) = name }
      IN /\ DOMAIN prs = { name \in tracked : sets(name) # {} }
         /\ \A name \in DOMAIN prs :
              /\ { prs[name][k].reps : k \in DOMAIN prs[name] }
                   = { cs.reps_done : cs \in sets(name) }
              /\ \A j \in DOMAIN prs[name] : \A k \in DOMAIN prs[name] :
                   j < k => prs[name][j].reps < prs[name][k].reps
              /\ \A k \in DOMAIN prs[name] :
                   LET group == { cs \in sets(name) : cs.reps_done = prs[name][k].reps }
                   IN /\ \E cs \in group : cs.load_done = prs[name][k].maxLoad
                      /\ \A cs \in group : cs.load_done <= prs[name][k].maxLoad

\* Squat is tracked as "Squat" and has sets (1,100), (5,90), (5,80) and one with
\* zero reps; Bench has a set on record but is not tracked.
PRsAreMaxPerRepsWitness ==
  /\ At(1, "GetPRs", "done")
  /\ tracked_exercises = {"Squat"}
  /\ split_notes = {}
  /\ completed_sets = LoadsCompleted
  /\ DOMAIN req[1].prs = {"squat"}
  /\ req[1].prs["squat"] = <<[reps |-> 1, maxLoad |-> 100], [reps |-> 5, maxLoad |-> 90]>>

\* ------------------------------------------------------------ one caller, a week's template
\* A Thursday (Day 1) created before its template was written: the Day has no
\* Planned Sets, the Thursday template holds rows A and B and the Friday template
\* one row.
WeekStore ==
  /\ daily_logs = {[id |-> 1, log_date |-> 0, summary |-> ""]}
  /\ planned_sets = {}
  /\ completed_sets = {}
  /\ timer = {}
  /\ exercises = {[id |-> 1, name |-> "Squat"]}
  /\ tracked_exercises = DefaultTracked
  /\ split_notes = {}
  /\ split_sets = {SplitRow(1, 4, 1, 60), SplitRow(2, 4, 2, 90), SplitRow(3, 5, 1, 60)}
  /\ serial = [day |-> 2, planned |-> 1, completed |-> 1, split |-> 4, timer |-> 1,
               exercise |-> 2, notes |-> 1]

InitPlan == WeekStore /\ Quiet

NextPlan ==
  \/ NextDay
  \/ GetDays(1)
  \/ \E id \in StoredDays : GetDay(1, id)
  \/ \E id \in StoredDays, item \in LinkedItems : PostCompleted(1, id, item)
  \/ ensureDay_Select(1)
  \/ ensureDay_Insert(1)
  \/ applySplit_Count(1)
  \/ applySplit_Select(1)
  \/ applySplit_Insert(1)
  \/ getAllDays(1)
  \/ getDay_Log(1)
  \/ getDay_Plan(1)
  \/ getPRs_Tracked(1)
  \/ getPRs_Query(1)
  \/ getDay_Completed(1)
  \/ getExerciseId_Select(1)
  \/ addCompleted_Insert(1)
  \/ setTimer_Delete(1)
  \/ setTimer_Insert(1)
  \/ Return(1)

SpecPlan == InitPlan /\ [][NextPlan]_vars

\* A step of a completeSet request whose body names no Planned Set.
AdHocStep(c) ==
  /\ req[c].op = "PostCompleted"
  /\ req[c].item.planned_set_id = 0
  /\ req'[c] # req[c]

\* C21 as stated: no step of an ad-hoc completeSet changes the active queue of any
\* Day, and the Completed Set it stores has a null link.
AdHocLeavesQueues ==
  [][\A c \in Clients :
       AdHocStep(c) =>
         /\ \A d \in DayIds : ActivePlan(d)' = ActivePlan(d)
         /\ \A cs \in completed_sets' \ completed_sets : cs.planned_set_id = 0
    ]_vars

\* C21: an ad-hoc completeSet stores a Completed Set of its Day with a null link
\* and changes no existing Planned Set: every stored Planned Set stays stored,
\* unchanged and as active as it was, the queues of the other Days stay the same,
\* and the only rows the call can add to its own Day's queue are clones of that
\* weekday's template, made by the getDay it starts with.
AdHocLeavesPlannedSets ==
  [][\A c \in Clients :
       AdHocStep(c) =>
         /\ planned_sets \subseteq planned_sets'
         /\ \A p \in planned_sets :
              (p \in ActivePlan(p.log_id)) <=> (p \in ActivePlan(p.log_id)')
         /\ \A d \in DayIds : d # req[c].id => ActivePlan(d)' = ActivePlan(d)
         /\ \A q \in planned_sets' \ planned_sets :
              /\ q.log_id = req[c].id
              /\ \E row \in SplitFor(Weekday(req[c].date)) :
                   q = PlannedFromSplit(q.id, req[c].id, row)
         /\ \A cs \in completed_sets' \ completed_sets :
              cs.planned_set_id = 0 /\ cs.log_id = req[c].id
    ]_vars

\* An ad-hoc completion answered while both Planned Sets of its Day stay queued.
AdHocLeavesPlannedSetsWitness ==
  /\ At(1, "PostCompleted", "done")
  /\ req[1].status = 200
  /\ req[1].item.planned_set_id = 0
  /\ \E cs \in completed_sets : cs.id = req[1].newId /\ cs.planned_set_id = 0
  /\ Cardinality(ActivePlan(req[1].id)) = 2
  /\ { p.id : p \in ActivePlan(req[1].id) } = { req[1].dayData[i].id : i \in DOMAIN req[1].dayData }

\* ------------------------------------------------------------ ownership and missing ids
\* One caller edits and deletes against Day 1 (Planned Sets A and B) and Day 2;
\* the ids it names may belong to no row.
InitOwn == InitQueue

AnyDayIds == 1 .. MaxDays + 1
AnyPlannedIds == 1 .. MaxPlanned + 1
AnyCompletedIds == 1 .. MaxCompleted + 1

NextOwn ==
  \/ \E id \in AnyDayIds : GetDay(1, id)
  \/ \E id \in AnyDayIds : DeleteDay(1, id)
  \/ \E id \in AnyDayIds : PutSummary(1, id, "done")
  \/ \E id \in AnyDayIds, item \in LinkedItems : PostCompleted(1, id, item)
  \/ \E id \in AnyPlannedIds, item \in PlanItems : PutPlan(1, id, item)
  \/ \E id \in AnyPlannedIds : DeletePlan(1, id)
  \/ \E id \in AnyCompletedIds : PutCompleted(1, id, CompletedItem(0))
  \/ \E id \in AnyCompletedIds : DeleteCompleted(1, id)
  \/ applySplit_Count(1)
  \/ applySplit_Select(1)
  \/ getDay_Log(1)
  \/ getDay_Plan(1)
  \/ getPRs_Tracked(1)
  \/ getPRs_Query(1)
  \/ getDay_Completed(1)
  \/ getExerciseId_Select(1)
  \/ updatePlan_Update(1)
  \/ deletePlan(1)
  \/ addCompleted_Insert(1)
  \/ setTimer_Delete(1)
  \/ setTimer_Insert(1)
  \/ updateCompleted_Update(1)
  \/ deleteCompleted(1)
  \/ updateSummary(1)
  \/ deleteDay(1)
  \/ Return(1)

SpecOwn == InitOwn /\ [][NextOwn]_vars

\* C22: deleteDay on an existing Day succeeds and removes the Day with all of its
\* Planned Sets and Completed Sets, and leaves the rows of every other Day as
\* they were.
DeleteDayCascades ==
  [][\A c \in Clients :
       (req[c].pc = "deleteDay" /\ req'[c].pc = "done" /\ DayExists(req[c].id)) =>
         /\ req'[c].status = 200
         /\ daily_logs' = { r \in daily_logs : r.id # req[c].id }
         /\ planned_sets' = { ps \in planned_sets : ps.log_id # req[c].id }
         /\ completed_sets' = { cs \in completed_sets : cs.log_id # req[c].id }
    ]_vars

\* The request names a Day, Planned Set or Completed Set that is not stored.
MissingId(r) ==
  CASE r.op \in {"GetDay", "PostCompleted", "PutSummary", "DeleteDay"} -> ~ DayExists(r.id)
    [] r.op \in {"PutPlan", "DeletePlan"} -> ~ PlannedExists(r.id)
    [] r.op \in {"PutCompleted", "DeleteCompleted"} ->
         ~ \E cs \in completed_sets : cs.id = r.id
    [] OTHER -> FALSE

\* C23: a request that names a Day, Planned Set or Completed Set id that does not
\* exist writes nothing and is answered with NotFound (404).
MissingIdIsNotFound ==
  [][\A c \in Clients :
       (req[c].op # "idle" /\ req'[c] # req[c] /\ MissingId(req[c])) =>
         /\ store' = store
         /\ (req[c].pc # "done" /\ req'[c].pc = "done") => req'[c].status = 404
    ]_vars

\* ------------------------------------------------------------ exercise names and request bodies
\* Day 1 exists, no Exercise is stored yet; connection 1 adds Planned Sets while
\* connection 2 adds template rows.  The names differ in letter case or are empty; the
\* weekday index of a template row is 4 or 7.
NameStore ==
  /\ daily_logs = {[id |-> 1, log_date |-> 0, summary |-> ""]}
  /\ planned_sets = {}
  /\ completed_sets = {}
  /\ timer = {}
  /\ exercises = {}
  /\ tracked_exercises = DefaultTracked
  /\ split_notes = {}
  /\ split_sets = {}
  /\ serial = [day |-> 2, planned |-> 1, completed |-> 1, split |-> 1, timer |-> 1,
               exercise |-> 1, notes |-> 1]

NameInputs == {"Squat", "squat", ""}

NamedItems ==
  { [NoItem EXCEPT !.exercise = name, !.reps = 5, !.load = 100, !.order_num = 1] :
      name \in NameInputs }

WeekdayInputs == {EpochWeekday, 7}

InitNames == NameStore /\ Quiet

NextNames ==
  \/ \E item \in NamedItems : PostPlan(1, 1, item)
  \/ \E dow \in WeekdayInputs, item \in NamedItems : PostSplit(2, dow, item)
  \/ \E c \in Clients :
    \/ getExerciseId_Select(c)
    \/ getExerciseId_Insert(c)
    \/ addPlan_Insert(c)
    \/ addSplit_Insert(c)
    \/ Return(c)

SpecNames == InitNames /\ [][NextNames]_vars

\* A body with an empty exercise name, or a template weekday outside 0..6.
Malformed(r) ==
  /\ r.op \in {"PostPlan", "PostSplit"}
  /\ \/ r.item.exercise = ""
     \/ r.op = "PostSplit" /\ r.id \notin 0 .. 6

\* C24: addPlannedSet and addSplitRow called with malformed input write nothing,
\* to exercises or any other table, and report a validation failure (400).
MalformedIsRejected ==
  [][\A c \in Clients :
       (Malformed(req[c]) /\ req'[c] # req[c]) =>
         /\ store' = store
         /\ (req[c].pc # "done" /\ req'[c].pc = "done") => req'[c].status = 400
    ]_vars

\* C25: no two Exercise rows have names that are equal ignoring case.
ExerciseNamesUnique ==
  \A e1 \in exercises : \A e2 \in exercises :
    Lower(e1.name) = Lower(e2.name) => e1 = e2

\* ------------------------------------------------------------ split notes
\* Two callers read and replace the notes while the clock runs.
InitNotes == EmptyStore /\ Quiet

NextNotes ==
  \/ Second
  \/ \E c \in Clients :
       \/ GetNotes(c)
       \/ \E notes \in NotesInputs : PutNotes(c, notes)
       \/ getNotes_Select(c)
       \/ getNotes_Insert(c)
       \/ setNotes_Upsert(c)
       \/ setNotes_Delete(c)
       \/ setNotes_Insert(c)
       \/ Return(c)

SpecNotes == InitNotes /\ [][NextNotes]_vars

\* C26: once every setSplitNotes and getSplitNotes call has finished, the notes
\* store holds at most one row.
NotesHoldOneRow ==
  (\A c \in Clients : req[c] = Idle) => Cardinality(split_notes) <= 1

\* ------------------------------------------------------------ logical date
\* The clock stands at one of these local instants: some minutes after midnight on
\* 1970-01-01, 2023-03-01, 2024-01-01, 2024-03-01 or 2024-03-15.
ClockDays == {DateUTC(1970, 1, 1), DateUTC(2023, 3, 1), DateUTC(2024, 1, 1),
              DateUTC(2024, 3, 1), DateUTC(2024, 3, 15)}

ClockMinutes == {30, 120, 239, 240, 300}

StartOffsets == {DAY_START_MINUTES, 240}

InitClock ==
  /\ EmptyStore
  /\ now \in { (day * 1440 + minute) * 60 : day \in ClockDays, minute \in ClockMinutes }
  /\ req = [c \in Clients |-> Idle]
  /\ copies = [d \in 1 .. MaxDays + 1 |-> 0]
  /\ last = NoLast

NextClock ==
  \E c \in Clients :
    \/ \E offset \in StartOffsets : Today(c, offset)
    \/ Return(c)

SpecClock == InitClock /\ [][NextClock]_vars

\* C27: logicalDate is the local calendar date of now, moved back by one calendar
\* day exactly when the local minutes since midnight are strictly less than the
\* day-start offset, also across month and year boundaries.
LogicalDateRule ==
  \A c \in Clients :
    At(c, "Today", "done") =>
      LET minutes == now \div 60
          local == CivilFromDays(minutes \div 1440)
          leap == (local.year % 4 = 0 /\ local.year % 100 # 0) \/ local.year % 400 = 0
          monthLength == [m \in 1 .. 12 |->
                            CASE m = 2 -> IF leap THEN 29 ELSE 28
                              [] m \in {4, 6, 9, 11} -> 30
                              [] OTHER -> 31]
          previous == CASE local.day > 1 ->
                             [year |-> local.year, month |-> local.month, day |-> local.day - 1]
                        [] local.day = 1 /\ local.month > 1 ->
                             [year |-> local.year, month |-> local.month - 1,
                              day |-> monthLength[local.month - 1]]
                        [] OTHER -> [year |-> local.year - 1, month |-> 12, day |-> 31]
          expected == IF minutes % 1440 < req[c].offset THEN previous ELSE local
      IN req[c].today = expected.year * 10000 + expected.month * 100 + expected.day

\* C28: when applySplitIfEmpty has materialised a Day that had no Planned Sets and
\* whose weekday template has n rows, the Day has exactly n Planned Sets, one per
\* template row of that weekday, each with the row's exercise, order, reps, rest,
\* relative flag and load; rows of other weekdays are not copied.
TemplateCopiedRowByRow ==
  [][\A c \in Clients :
       (req[c].pc = "applySplit_insert" /\ req'[c].pc \notin {"applySplit_insert", "done"}) =>
         LET template == { ss \in split_sets : ss.day_of_week = Weekday(req[c].date) }
             planned == { ps \in planned_sets' : ps.log_id = req[c].logId }
             Same(ps, ss) == /\ ps.exercise_id = ss.exercise_id
                             /\ ps.order_num = ss.order_num
                             /\ ps.reps = ss.reps
                             /\ ps.rest = ss.rest
                             /\ ps.relative = ss.relative
                             /\ ps.load = ss.load
         IN /\ Cardinality(planned) = Cardinality(template)
            /\ \A ss \in template : \E ps \in planned : Same(ps, ss)
            /\ \A ps \in planned : \E ss \in template : Same(ps, ss)
    ]_vars

\* Day 1, a Thursday, read after its two-row template was copied: rows A and B
\* are queued and the Friday row is not.
TemplateCopiedRowByRowWitness ==
  /\ At(1, "GetDay", "done")
  /\ req[1].id = 1
  /\ copies[1] = 1
  /\ PlannedCount(1) = 2
  /\ Len(req[1].plan) = 2
  /\ req[1].plan[1].rest = 60 /\ req[1].plan[2].rest = 90
  /\ \E ss \in split_sets : ss.day_of_week # Weekday(0)

\* C29: listDays computes the current logical date when it starts and runs
\* ensureTodayPlan before it reads: its result holds the Day of that date, which
\* has Planned Sets if its weekday has a template; the Days are all the stored
\* ones, ordered by date descending, each with the number of Completed Sets it
\* owns.
ListDaysEnsuresToday ==
  [][\A c \in Clients :
       /\ (req[c].op = "idle" /\ req'[c].op = "GetDays") =>
            req'[c].date = now \div SecondsPerDay
       /\ (At(c, "GetDays", "getAllDays") /\ req'[c].pc = "done") =>
            LET days == req'[c].days
            IN /\ \E i \in DOMAIN days :
                    /\ days[i].log_date = req[c].date
                    /\ days[i].id = req[c].logId
                    /\ (\E ss \in split_sets : ss.day_of_week = Weekday(req[c].date)) =>
                         \E ps \in planned_sets : ps.log_id = days[i].id
               /\ { days[i].id : i \in DOMAIN days } = { r.id : r \in daily_logs }
               /\ \A i \in DOMAIN days : \A j \in DOMAIN days :
                    i < j => days[i].log_date > days[j].log_date
               /\ \A i \in DOMAIN days :
                    days[i].completed_sets_count =
                      Cardinality({ cs \in completed_sets : cs.log_id = days[i].id })
    ]_vars

\* Friday's list: the new Day first, with its template row planned, then the
\* Thursday with its Completed Set counted.
ListDaysEnsuresTodayWitness ==
  /\ At(1, "GetDays", "done")
  /\ now \div SecondsPerDay = 1
  /\ Len(req[1].days) = 2
  /\ req[1].days[1].log_date = 1 /\ req[1].days[2].log_date = 0
  /\ req[1].days[2].completed_sets_count = 1
  /\ PlannedCount(req[1].days[1].id) = 1

\* The same caller and database, with midnight passing only between requests.
Midnight == (\A c \in Clients : req[c] = Idle) /\ NextDay

InitToday == InitPlan

NextToday ==
  \/ Midnight
  \/ GetDays(1)
  \/ \E id \in StoredDays : GetDay(1, id)
  \/ \E id \in StoredDays, item \in LinkedItems : PostCompleted(1, id, item)
  \/ ensureDay_Select(1)
  \/ ensureDay_Insert(1)
  \/ applySplit_Count(1)
  \/ applySplit_Select(1)
  \/ applySplit_Insert(1)
  \/ getAllDays(1)
  \/ getDay_Log(1)
  \/ getDay_Plan(1)
  \/ getPRs_Tracked(1)
  \/ getPRs_Query(1)
  \/ getDay_Completed(1)
  \/ getExerciseId_Select(1)
  \/ addCompleted_Insert(1)
  \/ setTimer_Delete(1)
  \/ setTimer_Insert(1)
  \/ Return(1)

SpecToday == InitToday /\ [][NextToday]_vars

\* C30: when any request completes, a Day for the current logical date exists
\* and, if its weekday has a template, holds Planned Sets.
EveryHandlerEnsuresToday ==
  [][\A c \in Clients :
       (req[c].pc # "done" /\ req'[c].pc = "done" /\ req'[c].status = 200) =>
         \E r \in daily_logs' :
           /\ r.log_date = now \div SecondsPerDay
           /\ (\E ss \in split_sets : ss.day_of_week = Weekday(r.log_date)) =>
                \E ps \in planned_sets' : ps.log_id = r.id
    ]_vars

\* ------------------------------------------------------------ rest and relative of a new Planned Set
\* One caller adds Planned Sets to Day 1 and edits them; the body leaves rest out
\* or gives 0 or 90 as a number or "0" as a string, and relative is false or true.
RestInputs == {JsUndef, JsNum(0), JsNum(90), JsStr(0)}

RestItems ==
  { [NoItem EXCEPT !.exercise = "Squat", !.reps = 5, !.load = 100, !.rest = rest,
                   !.order_num = 1, !.relative = relative] :
      rest \in RestInputs, relative \in BOOLEAN }

InitRest == InitPlan

NextRest ==
  \/ \E item \in RestItems : PostPlan(1, 1, item)
  \/ \E ps \in planned_sets, item \in RestItems : PutPlan(1, ps.id, item)
  \/ getExerciseId_Select(1)
  \/ addPlan_Insert(1)
  \/ updatePlan_Update(1)
  \/ Return(1)

SpecRest == InitRest /\ [][NextRest]_vars

\* C31: the Planned Set stored by addPlannedSet has rest 60 when the body has no
\* rest field and the given rest otherwise, and has the given relative flag.
SuppliedRestIsStored ==
  [][\A c \in Clients :
       (req[c].pc = "addPlan_insert" /\ req'[c].pc = "done" /\ req'[c].status = 200) =>
         \E ps \in planned_sets' \ planned_sets :
           /\ ps.id = req'[c].newId
           /\ ps.rest = IF req[c].item.rest.t = "undefined" THEN 60
                        ELSE req[c].item.rest.v
           /\ ps.relative = req[c].item.relative
    ]_vars

\* ------------------------------------------------------------ parseDayStartMinutes
\* A string is the sequence of its characters.
DigitChars == {"0", "1", "2", "3", "4", "5", "6", "7", "8", "9"}

DigitValue(ch) ==
  CASE ch = "0" -> 0 [] ch = "1" -> 1 [] ch = "2" -> 2 [] ch = "3" -> 3 [] ch = "4" -> 4
    [] ch = "5" -> 5 [] ch = "6" -> 6 [] ch = "7" -> 7 [] ch = "8" -> 8 [] ch = "9" -> 9

AllDigits(str) == \A i \in DOMAIN str : str[i] \in DigitChars

\* String.prototype.trimStart and trim; the only white space is the space.
RECURSIVE TrimStart(_)
TrimStart(str) ==
  IF str # <<>> /\ Head(str) = " " THEN TrimStart(Tail(str)) ELSE str

RECURSIVE TrimEnd(_)
TrimEnd(str) ==
  IF str # <<>> /\ str[Len(str)] = " " THEN TrimEnd(SubSeq(str, 1, Len(str) - 1)) ELSE str

Trim(str) == TrimEnd(TrimStart(str))

\* The characters before the first `ch`, or the whole string when there is none.
RECURSIVE UpTo(_, _)
UpTo(str, ch) ==
  IF str = <<>> \/ Head(str) = ch THEN <<>> ELSE <<Head(str)>> \o UpTo(Tail(str), ch)

\* raw.split(':', 2) of a string that includes ':': the first two pieces.
SplitColon(raw) ==
  LET first == UpTo(raw, ":")
      rest == SubSeq(raw, Len(first) + 2, Len(raw))
  IN <<first, UpTo(rest, ":")>>

\* The number written by the longest prefix of digits of `str`, after `acc`.
RECURSIVE DigitsPrefix(_, _)
DigitsPrefix(str, acc) ==
  IF str # <<>> /\ Head(str) \in DigitChars
  THEN DigitsPrefix(Tail(str), acc * 10 + DigitValue(Head(str)))
  ELSE acc

\* `parseInt(str, 10) || 0`: leading white space is skipped, a sign is read, then
\* the digits up to the first other character; without a digit the result is NaN,
\* and NaN gives 0.
ParseIntOrZero(str) ==
  LET t == TrimStart(str)
      signed == t # <<>> /\ Head(t) \in {"-", "+"}
      digits == IF signed THEN Tail(t) ELSE t
      n == DigitsPrefix(digits, 0)
  IN IF digits = <<>> \/ Head(digits) \notin DigitChars THEN 0
     ELSE IF signed /\ Head(t) = "-" THEN 0 - n ELSE n

\* Math.min(Math.max(n, lo), hi)
Clamp(n, lo, hi) == IF n < lo THEN lo ELSE IF n > hi THEN hi ELSE n

parseDayStartMinutes(value) ==
  LET raw == Trim(value)
      Minutes(hoursStr, minutesStr) ==
        LET hours == Clamp(ParseIntOrZero(hoursStr), 0, 23)
            minutes == Clamp(ParseIntOrZero(minutesStr), 0, 59)
        IN hours * 60 + minutes
  IN IF value = <<>> \/ raw = <<>> THEN 0
     ELSE IF \E i \in DOMAIN raw : raw[i] = ":"
     THEN LET parts == SplitColon(raw)
          IN Minutes(parts[1], parts[2])
     ELSE IF Len(raw) \in {3, 4} /\ AllDigits(raw)
     THEN LET padded == IF Len(raw) = 3 THEN <<"0">> \o raw ELSE raw
          IN Minutes(SubSeq(padded, 1, 2), SubSeq(padded, 3, 4))
     ELSE 0

\* const DAY_START_MINUTES = parseDayStartMinutes(DAY_START_TIME), at module load.
ParseDayStart(c, value) ==
  /\ req[c] = Idle
  /\ Set(c, [Idle EXCEPT !.op = "ParseDayStart", !.pc = "done", !.status = 200,
                         !.value = value, !.minutes = parseDayStartMinutes(value)])
  /\ UNCHANGED <<store, now, copies, last>>

\* The configuration strings: up to MaxLen of these characters.
StartChars == {"0", "2", "5", ":", "x", " ", "-"}

StartStrings == UNION { [1 .. n -> StartChars] : n \in 0 .. MaxLen }

InitParse == EmptyStore /\ Quiet

NextParse ==
  \/ \E value \in StartStrings : ParseDayStart(1, value)
  \/ Return(1)

SpecParse == InitParse /\ [][NextParse]_vars

\* "HH:MM" or "HHMM" with an hour of at most 23 and a minute of at most 59.
WellFormedStart(str) ==
  LET digits == IF Len(str) = 5 THEN SubSeq(str, 1, 2) \o SubSeq(str, 4, 5) ELSE str
  IN /\ Len(str) \in {4, 5}
     /\ Len(str) = 5 => str[3] = ":"
     /\ AllDigits(digits)
     /\ DigitValue(digits[1]) * 10 + DigitValue(digits[2]) <= 23
     /\ DigitValue(digits[3]) * 10 + DigitValue(digits[4]) <= 59

\* The minutes a well-formed string writes.
WrittenMinutes(str) ==
  LET digits == IF Len(str) = 5 THEN SubSeq(str, 1, 2) \o SubSeq(str, 4, 5) ELSE str
  IN (DigitValue(digits[1]) * 10 + DigitValue(digits[2])) * 60
       + DigitValue(digits[3]) * 10 + DigitValue(digits[4])

\* Empty, or with a colon and an hour or minute part that is no number, or
\* without a colon and not three or four digits.
MalformedStart(str) ==
  \/ Trim(str) = <<>>
  \/ /\ \E i \in DOMAIN str : str[i] = ":"
     /\ \E part \in {SplitColon(Trim(str))[1], SplitColon(Trim(str))[2]} :
          part = <<>> \/ ~ AllDigits(part)
  \/ /\ ~ \E i \in DOMAIN str : str[i] = ":"
     /\ ~ (Len(Trim(str)) \in {3, 4} /\ AllDigits(Trim(str)))

\* C32: parseDayStartMinutes returns a value in 0..1439, the written hours * 60 +
\* minutes for a well-formed "HH:MM" or "HHMM" string, and 0 for an empty or
\* malformed string, a non-numeric hour or minute part included.
DayStartParsed ==
  \A c \in Clients :
    At(c, "ParseDayStart", "done") =>
      /\ req[c].minutes \in 0 .. 1439
      /\ WellFormedStart(req[c].value) => req[c].minutes = WrittenMinutes(req[c].value)
      /\ MalformedStart(req[c].value) => req[c].minutes = 0

\* ------------------------------------------------------------ order of the plan
\* One caller adds a Planned Set to Day 1 whose order_num equals that of A or of
\* B, reads the Day and logs Completed Sets.
TiedItems ==
  { [NoItem EXCEPT !.exercise = "Squat", !.reps = 5, !.load = 100, !.rest = JsNum(30),
                   !.order_num = order] : order \in {1, 2} }

InitOrder == InitQueue

NextOrder ==
  \/ \E item \in TiedItems : PostPlan(1, 1, item)
  \/ \E id \in StoredDays : GetDay(1, id)
  \/ \E id \in StoredDays, item \in LinkedItems : PostCompleted(1, id, item)
  \/ applySplit_Count(1)
  \/ applySplit_Select(1)
  \/ getDay_Log(1)
  \/ getDay_Plan(1)
  \/ getPRs_Tracked(1)
  \/ getPRs_Query(1)
  \/ getDay_Completed(1)
  \/ getExerciseId_Select(1)
  \/ addPlan_Insert(1)
  \/ addCompleted_Insert(1)
  \/ setTimer_Delete(1)
  \/ setTimer_Insert(1)
  \/ Return(1)

SpecOrder == InitOrder /\ [][NextOrder]_vars

\* C33: the plan getDay returns is in order_num order, and Planned Sets of equal
\* order_num are in the order of their ids, so its first element is determined by
\* the stored rows.
PlanOrderIsDetermined ==
  \A c \in Clients :
    (At(c, "GetDay", "done") /\ req[c].status = 200) =>
      \A i \in DOMAIN req[c].plan : \A j \in DOMAIN req[c].plan :
        i < j =>
          \/ req[c].plan[i].order_num < req[c].plan[j].order_num
          \/ /\ req[c].plan[i].order_num = req[c].plan[j].order_num
             /\ req[c].plan[i].id < req[c].plan[j].id

\* ------------------------------------------------------------ references to Planned Sets
\* Connection 1 deletes Planned Sets and Days while connection 2 logs and edits
\* Completed Sets that name a Planned Set stored when the request was made.
InitRefs == InitQueue

NextRefs ==
  \/ \E id \in PlannedIds : DeletePlan(1, id)
  \/ \E id \in StoredDays : DeleteDay(1, id)
  \/ \E id \in StoredDays, item \in LinkedItems : PostCompleted(2, id, item)
  \/ \E id \in StoredCompleted, item \in LinkedItems : PutCompleted(2, id, item)
  \/ \E c \in Clients :
    \/ deletePlan(c)
    \/ deleteDay(c)
    \/ applySplit_Count(c)
    \/ applySplit_Select(c)
    \/ getDay_Log(c)
    \/ getDay_Plan(c)
    \/ getPRs_Tracked(c)
    \/ getPRs_Query(c)
    \/ getDay_Completed(c)
    \/ getExerciseId_Select(c)
    \/ addCompleted_Insert(c)
    \/ setTimer_Delete(c)
    \/ setTimer_Insert(c)
    \/ updateCompleted_Update(c)
    \/ Return(c)

SpecRefs == InitRefs /\ [][NextRefs]_vars

\* C34: every Completed Set that names a Planned Set names a stored one, and
\* deletePlannedSet on a Planned Set that a Completed Set names fails and leaves
\* every table as it was.
ReferencedPlannedSetKept ==
  /\ [](\A cs \in completed_sets : cs.planned_set_id # 0 => PlannedExists(cs.planned_set_id))
  /\ [][\A c \in Clients :
          (req[c].pc = "deletePlan" /\ req'[c].pc = "done" /\
             \E cs \in completed_sets : cs.planned_set_id = req[c].id) =>
            /\ req'[c].status = 500
            /\ store' = store
       ]_vars

ReferencedPlannedSetKeptWitness ==
  /\ At(1, "DeletePlan", "done")
  /\ req[1].status = 500
  /\ PlannedExists(req[1].id)
  /\ \E cs \in completed_sets : cs.planned_set_id = req[1].id

\* ------------------------------------------------------------ the PR display
\* The PR page loads the records while Completed Sets are deleted and exercises
\* are tracked and untracked between its loads.
InitShow == InitLoads

NextShow ==
  \/ LoadPRs(1)
  \/ \E id \in StoredCompleted : DeleteCompleted(1, id)
  \/ \E exercise \in LoadsTracked : PostTracked(1, exercise)
  \/ \E exercise \in LoadsTracked : DeleteTracked(1, exercise)
  \/ getPRs_Tracked(1)
  \/ getPRs_Query(1)
  \/ deleteCompleted(1)
  \/ addTrackedExercise(1)
  \/ removeTrackedExercise(1)
  \/ Return(1)

SpecShow == InitShow /\ [][NextShow]_vars

\* C35: for every exercise, the displayed list is the records in ascending order
\* of reps, preceded by one estimated 1-rep entry exactly when no record has
\* reps = 1; that entry's value is load * (1 + reps / 30) of the record with the
\* fewest reps, rounded to the nearest integer; loading the display writes nothing
\* to the store.
EstimatedEntryShown ==
  /\ [](\A c \in Clients :
          At(c, "LoadPRs", "done") =>
            /\ DOMAIN req[c].shown = DOMAIN req[c].prs
            /\ \A name \in DOMAIN req[c].prs :
                 LET records == req[c].prs[name]
                     shown == req[c].shown[name]
                     plain == SelectSeq(shown, LAMBDA e : ~e.estimated)
                     lowest == CHOOSE i \in DOMAIN records :
                                 \A j \in DOMAIN records : records[i].reps <= records[j].reps
                 IN /\ Len(plain) = Len(records)
                    /\ \A i \in DOMAIN records :
                         /\ plain[i].reps = records[i].reps
                         /\ plain[i].maxLoad = records[i].maxLoad
                    /\ \A i \in DOMAIN plain : \A j \in DOMAIN plain :
                         i < j => plain[i].reps < plain[j].reps
                    /\ (\E i \in DOMAIN shown : shown[i].estimated)
                         <=> ~ \E i \in DOMAIN records : records[i].reps = 1
                    /\ \A i \in DOMAIN shown :
                         shown[i].estimated =>
                           /\ i = 1
                           /\ shown[i].reps = 1
                           /\ 30 * (2 * shown[i].maxLoad - 1)
                                <= 2 * records[lowest].maxLoad * (30 + records[lowest].reps)
                           /\ 2 * records[lowest].maxLoad * (30 + records[lowest].reps)
                                < 30 * (2 * shown[i].maxLoad + 1))
  /\ [][\A c \in Clients :
          (req[c].op = "LoadPRs" \/ req'[c].op = "LoadPRs") /\ req'[c] # req[c] =>
            store' = store
       ]_vars

\* The display holds an estimated Bench entry of 105 and a plain 1-rep Squat entry.
EstimatedEntryShownWitness ==
  /\ At(1, "LoadPRs", "done")
  /\ DOMAIN req[1].shown = {"squat", "bench"}
  /\ req[1].shown["bench"] = <<[reps |-> 1, maxLoad |-> 105, estimated |-> TRUE],
                                [reps |-> 5, maxLoad |-> 90, estimated |-> FALSE]>>
  /\ req[1].shown["squat"][1] = [reps |-> 1, maxLoad |-> 100, estimated |-> FALSE]

\* C36: when the INSERT of completeSet fails because the body names a Planned Set
\* or a Day that is not stored, the request is answered with a failure, no
\* Completed Set is stored, and the request has not touched the timer: no step
\* of the request before a successful insert changes completed_sets or timer.
FailedInsertLeavesTimer ==
  [][\A c \in Clients :
       (req[c].op = "PostCompleted" /\ req[c].phase = 1 /\ req'[c] # req[c]) =>
         LET psid == req[c].item.planned_set_id
             rejected == \/ ~ \E r \in daily_logs : r.id = req[c].id
                         \/ psid # 0 /\ ~ \E ps \in planned_sets : ps.id = psid
         IN /\ req[c].pc # "addCompleted_insert" =>
                 completed_sets' = completed_sets /\ timer' = timer
            /\ (req[c].pc = "addCompleted_insert" /\ rejected) =>
                 /\ req'[c].pc = "done"
                 /\ req'[c].status = 500
                 /\ completed_sets' = completed_sets
                 /\ timer' = timer
    ]_vars

\* A completion naming a Planned Set deleted meanwhile has failed; a next set
\* had been read and an earlier completion's timer is still stored.
FailedInsertLeavesTimerWitness ==
  /\ At(2, "PostCompleted", "done")
  /\ req[2].status = 500
  /\ req[2].newId = 0
  /\ req[2].item.planned_set_id # 0
  /\ ~ \E ps \in planned_sets : ps.id = req[2].item.planned_set_id
  /\ req[2].nextSet # <<>>
  /\ timer # {}

\* C37: a completeSet on a Day whose active queue is empty when the Completed
\* Set is inserted stores the Completed Set and goes on without a call of
\* setTimerSeconds, and no other step of the request changes the timer.
EmptyQueueLeavesTimer ==
  [][\A c \in Clients :
       (req[c].op = "PostCompleted" /\ req'[c] # req[c]) =>
         /\ (/\ req[c].pc = "addCompleted_insert"
             /\ ActivePlan(req[c].id) = {}
             /\ req'[c].status # 500) =>
               /\ \E cs \in completed_sets' \ completed_sets :
                    cs.id = req'[c].newId /\ cs.log_id = req[c].id
               /\ timer' = timer
               /\ req'[c].pc \notin {"setTimer_delete", "setTimer_insert"}
         /\ req[c].pc \notin {"setTimer_delete", "setTimer_insert"} => timer' = timer
    ]_vars

\* A completion on Day 2, whose queue is empty, is answered while the timer set
\* by an earlier completion on Day 1 is still stored.
EmptyQueueLeavesTimerWitness ==
  /\ At(1, "PostCompleted", "done")
  /\ req[1].status = 200
  /\ req[1].id = 2
  /\ req[1].dayData = <<>>
  /\ \E cs \in completed_sets : cs.id = req[1].newId /\ cs.log_id = 2
  /\ timer # {}

\* C38: a Completed Set that names a Planned Set belongs to the Day of that
\* Planned Set.
CompletedLinksWithinDay ==
  \A cs \in completed_sets : \A ps \in planned_sets :
    cs.planned_set_id = ps.id => cs.log_id = ps.log_id

\* ------------------------------------------------------------ template edits
\* Today is a Thursday whose Day 1 holds the Planned Sets A and B; Day 2, a
\* Friday, has no plan.  One caller adds, changes and deletes template rows for
\* both weekdays and reads the Days.
EditStore ==
  /\ daily_logs = {[id |-> 1, log_date |-> 0, summary |-> ""],
                   [id |-> 2, log_date |-> 1, summary |-> ""]}
  /\ planned_sets = {PlannedFromSplit(1, 1, SplitRow(1, 4, 1, 60)),
                     PlannedFromSplit(2, 1, SplitRow(2, 4, 2, 90))}
  /\ completed_sets = {}
  /\ timer = {}
  /\ exercises = {[id |-> 1, name |-> "Squat"]}
  /\ tracked_exercises = DefaultTracked
  /\ split_notes = {}
  /\ split_sets = {SplitRow(1, 4, 1, 60)}
  /\ serial = [day |-> 3, planned |-> 3, completed |-> 1, split |-> 2, timer |-> 1,
               exercise |-> 2, notes |-> 1]

InitEdit == EditStore /\ Quiet

NextEdit ==
  \/ \E dow \in {4, 5}, item \in SplitItems : PostSplit(1, dow, item)
  \/ \E ss \in split_sets, item \in SplitItems : PutSplit(1, ss.id, item)
  \/ \E ss \in split_sets : DeleteSplit(1, ss.id)
  \/ GetDays(1)
  \/ \E id \in StoredDays : GetDay(1, id)
  \/ getExerciseId_Select(1)
  \/ addSplit_Insert(1)
  \/ updateSplit_Update(1)
  \/ deleteSplit(1)
  \/ ensureDay_Select(1)
  \/ applySplit_Count(1)
  \/ applySplit_Select(1)
  \/ applySplit_Insert(1)
  \/ getAllDays(1)
  \/ getDay_Log(1)
  \/ getDay_Plan(1)
  \/ getPRs_Tracked(1)
  \/ getPRs_Query(1)
  \/ getDay_Completed(1)
  \/ Return(1)

SpecEdit == InitEdit /\ [][NextEdit]_vars

\* C39: whatever rows are added to, changed in or deleted from the template, and
\* however often the Days are read afterwards, Day 1, which had Planned Sets
\* before the edits, keeps exactly those Planned Sets.
TemplateEditsSpareFilledDay ==
  { ps \in planned_sets : ps.log_id = 1 } =
    {PlannedFromSplit(1, 1, SplitRow(1, 4, 1, 60)),
     PlannedFromSplit(2, 1, SplitRow(2, 4, 2, 90))}

\* Day 1 has been read after the Thursday template was changed, and Day 2 has
\* received a row of the edited Friday template.
TemplateEditsSpareFilledDayWitness ==
  /\ At(1, "GetDay", "done")
  /\ req[1].id = 1
  /\ req[1].status = 200
  /\ SplitFor(4) # {SplitRow(1, 4, 1, 60)}
  /\ \E ps \in planned_sets : ps.log_id = 2
====
